---- MODULE Spec2Model ----
(***************************************************************************)
(* A model of the Uncertain Keys synthesizer (js/app.js): the Synth class  *)
(* (init, playNote, stopNote, the frequency safeguard and the detune ramp  *)
(* scheduler) and the pure helpers it uses.                                *)
(*                                                                         *)
(* Numbers.  JavaScript numbers are modelled in fixed point:               *)
(*   frequencies      in 1/100 Hz                                          *)
(*   detune values    in cents                                             *)
(*   drift rates      in cents per second                                  *)
(*   uniform draws    in 1/100            (0 .. 99, Math.random is [0,1))  *)
(*   normal deviates  in 1/100                                             *)
(*   gain values      in 1/10000                                           *)
(*   clock times      in 1/100 s, as exact rationals [n, d] (n/d)          *)
(* A quotient such as timeToLimit is kept as an exact rational, so that    *)
(* comparisons of times are those of real arithmetic.                      *)
(***************************************************************************)
EXTENDS Integers, Sequences, FiniteSets, TLC

VARIABLES
    env,            \* the browser: [cancelAndHold, sampleRate]
    audioCtx,       \* Synth.audioCtx: FALSE (null) or TRUE (constructed)
    activeVoices,   \* Synth.activeVoices: own properties, keyId -> voice
    nodes,          \* audio nodes created so far, by id
    master,         \* Synth's master chain and what init has constructed
    now,            \* audioCtx.currentTime, in 1/100 s
    last,           \* what the most recent call did (its observable effects)
    ramp,           \* input and output of the last scheduleDetuneRamp call
    cutoffVal,      \* the text of the page's #cutoffVal label, as a number
    gauss,          \* a gaussianRandom() call in progress: [pc, u, v, z, draws]
    page,           \* the page's controls, key elements, layout and octave
    recorder,       \* the recording variables of the main scope and buttons
    midi            \* the MIDI variables of the main scope, devices and select

\* What lies outside the Synth object and its methods never touch.
outside == <<cutoffVal, gauss, page, recorder, midi>>

vars ==
    <<env, audioCtx, activeVoices, nodes, master, now, last, ramp, outside>>

----------------------------------------------------------------------------
(* Fixed-point scales (units per Hz, per second, per draw, per unit gain).  *)

HzScale == 10 * 10
TimeScale == 10 * 10
DrawScale == 10 * 10
GainScale == 100 * 100

\* Mantissa scale and number of fraction bits of the fixed-point log2/exp2.
Mant == 2 ^ 14
FracBits == 5 + 5

\* The non-finite numbers, as integers outside the range of every finite
\* value of the model.
Infinity == 2 ^ 30
NaN == 0 - (2 ^ 30) - 1

----------------------------------------------------------------------------
(* Rationals n/d with d > 0, for times.                                    *)

Rat(n, d) == IF d < 0 THEN [n |-> 0 - n, d |-> 0 - d] ELSE [n |-> n, d |-> d]
RatInt(k) == [n |-> k, d |-> 1]
RatLeq(a, b) == a.n * b.d <= b.n * a.d
RatLess(a, b) == a.n * b.d < b.n * a.d
RatEq(a, b) == a.n * b.d = b.n * a.d
RatAdd(a, b) == [n |-> a.n * b.d + b.n * a.d, d |-> a.d * b.d]

----------------------------------------------------------------------------
(* Math.log2 and Math.pow(2, x) in fixed point.                            *)

RECURSIVE NormRatio(_, _, _)
\* num/den brought into [1, 2) by doubling, with the exponent taken out.
NormRatio(num, den, e) ==
    IF num >= 2 * den THEN NormRatio(num, 2 * den, e + 1)
    ELSE IF num < den THEN NormRatio(2 * num, den, e - 1)
    ELSE <<num, den, e>>

RECURSIVE Shrink(_, _)
Shrink(num, den) ==
    IF den >= 2 ^ 16 THEN Shrink(num \div 2, den \div 2) ELSE <<num, den>>

RECURSIVE LogBits(_, _, _)
\* The fraction bits of log2 of a mantissa m/Mant in [1,2), by squaring.
LogBits(m, k, acc) ==
    IF k = 0 THEN acc
    ELSE LET sq == (m * m) \div Mant
         IN  IF sq >= 2 * Mant THEN LogBits(sq \div 2, k - 1, 2 * acc + 1)
                               ELSE LogBits(sq, k - 1, 2 * acc)

\* 1200 * Math.log2(num / den), in cents, for num, den > 0.
Log2Cents(num, den) ==
    LET nr == NormRatio(num, den, 0)
        sh == Shrink(nr[1], nr[2])
        m  == (sh[1] * Mant) \div sh[2]
        fr == LogBits(m, FracBits, 0)
    IN  1200 * nr[3] + (1200 * fr) \div (2 ^ FracBits)

\* 2^(1/2), 2^(1/4), ... 2^(1/1024), times Mant.
Pow2Roots == <<23170, 19484, 17867, 17109, 16743, 16562, 16473, 16428, 16406, 16395>>

MulFix(x, m) == (x \div Mant) * m + ((x % Mant) * m) \div Mant

RECURSIVE PowBits(_, _, _)
\* x * 2^(fb / 2^FracBits): one factor per set fraction bit, highest first.
PowBits(x, fb, i) ==
    IF i > FracBits THEN x
    ELSE LET bit == (fb \div (2 ^ (FracBits - i))) % 2
         IN  PowBits(IF bit = 1 THEN MulFix(x, Pow2Roots[i]) ELSE x, fb, i + 1)

RECURSIVE Shift2(_, _)
\* x * 2^q for an integer q.
Shift2(x, q) ==
    IF q = 0 THEN x
    ELSE IF q > 0 THEN Shift2(2 * x, q - 1)
    ELSE Shift2(x \div 2, q + 1)

\* x * Math.pow(2, cents / 1200).
MulPow2Cents(x, cents) ==
    LET oct == 1200
        q   == cents \div oct
        r   == cents % oct
        fb  == (r * (2 ^ FracBits)) \div oct
    IN  Shift2(PowBits(x, fb, 1), q)

----------------------------------------------------------------------------
(* Math.random: a source of uniform draws in [0, 1), in 1/100.  A source   *)
(* is a finite cycle of draws holding at least one non-zero draw; the      *)
(* i-th call returns the i-th draw of the endless repetition of the cycle. *)

DrawAt(src, i) == src[((i - 1) % Len(src)) + 1]

\* Math.sqrt(-2.0 * Math.log(u)) for u = 1/100 .. 99/100, in 1/100.
SqrtNeg2LogTable ==
  <<
    303, 280, 265, 254, 245, 237, 231, 225, 219, 215, 210,
    206, 202, 198, 195, 191, 188, 185, 182, 179, 177, 174,
    171, 169, 167, 164, 162, 160, 157, 155, 153, 151, 149,
    147, 145, 143, 141, 139, 137, 135, 134, 132, 130, 128,
    126, 125, 123, 121, 119, 118, 116, 114, 113, 111, 109,
    108, 106, 104, 103, 101, 99, 98, 96, 94, 93, 91,
    89, 88, 86, 84, 83, 81, 79, 78, 76, 74, 72,
    70, 69, 67, 65, 63, 61, 59, 57, 55, 53, 51,
    48, 46, 43, 41, 38, 35, 32, 29, 25, 20, 14
  >>

\* Math.cos(2.0 * Math.PI * v) for v = 1/100 .. 99/100, in 1/100.
CosTwoPiTable ==
  <<
    100, 99, 98, 97, 95, 93, 90, 88, 84, 81, 77,
    73, 68, 64, 59, 54, 48, 43, 37, 31, 25, 19,
    13, 6, 0, -6, -13, -19, -25, -31, -37, -43, -48,
    -54, -59, -64, -68, -73, -77, -81, -84, -88, -90, -93,
    -95, -97, -98, -99, -100, -100, -100, -99, -98, -97, -95,
    -93, -90, -88, -84, -81, -77, -73, -68, -64, -59, -54,
    -48, -43, -37, -31, -25, -19, -13, -6, 0, 6, 13,
    19, 25, 31, 37, 43, 48, 54, 59, 64, 68, 73,
    77, 81, 84, 88, 90, 93, 95, 97, 98, 99, 100
  >>

RECURSIVE DrawNonZero(_, _)
\* "while (u === 0) u = Math.random()": the position of the first non-zero
\* draw after position pos.
DrawNonZero(src, pos) ==
    IF DrawAt(src, pos + 1) # 0 THEN pos + 1 ELSE DrawNonZero(src, pos + 1)

\* gaussianRandom(): [z |-> the deviate in 1/100, pos |-> draws consumed].
gaussianRandom(src, pos) ==
    LET pu == DrawNonZero(src, pos)
        pv == DrawNonZero(src, pu)
        u  == DrawAt(src, pu)
        v  == DrawAt(src, pv)
    IN  [z   |-> (SqrtNeg2LogTable[u] * CosTwoPiTable[v]) \div DrawScale,
         pos |-> pv]

\* A pitch that draws its deviate whatever the variance.
getGaussianPitchAlwaysDraws(baseFreq, varianceCents, src, pos) ==
    LET g == gaussianRandom(src, pos)
        deviation == (g.z * varianceCents) \div DrawScale
    IN  [freq |-> MulPow2Cents(baseFreq, deviation), pos |-> g.pos]

\* getGaussianPitch(baseFreq, varianceCents): [freq, pos].
getGaussianPitch(baseFreq, varianceCents, src, pos) ==
    IF varianceCents = 0 THEN [freq |-> baseFreq, pos |-> pos]
    ELSE LET g == gaussianRandom(src, pos)
             deviation == (g.z * varianceCents) \div DrawScale
         IN  [freq |-> MulPow2Cents(baseFreq, deviation), pos |-> g.pos]

----------------------------------------------------------------------------
(* Synth: constants of the constructor and of the methods.                 *)

DRIFT_DURATION_SECONDS == 86400
baseVoiceGain == 1800
noteAttackTime == 2
releaseFloorGain == 1
minOscillatorFrequency == 1 * HzScale
nyquistHeadroomPercent == 45
defaultSampleRate == 44100
releaseTime == 15
stopDelay == 16

Max2(a, b) == IF a >= b THEN a ELSE b
Min2(a, b) == IF a <= b THEN a ELSE b

\* Number.isFinite
IsFinite(x) == x # NaN /\ x # Infinity /\ x # 0 - Infinity

\* One call on an audio node or on one of its parameters.
Instr(node, param, op, value, at) ==
    [node |-> node, param |-> param, op |-> op, value |-> value, at |-> at]

\* Synth.getFrequencyBounds(), in 1/100 Hz.
getFrequencyBounds ==
    LET sampleRate == IF audioCtx /\ env.sampleRate # 0
                      THEN env.sampleRate ELSE defaultSampleRate
        maxFreq == Max2(minOscillatorFrequency,
                        (sampleRate * nyquistHeadroomPercent * HzScale) \div 100)
    IN  [min |-> minOscillatorFrequency, max |-> maxFreq]

\* A clamp without the test for NaN and the infinities.
clampFrequencyUnchecked(freq) ==
    Min2(getFrequencyBounds.max, Max2(getFrequencyBounds.min, freq))

\* Synth.clampFrequency(freq)
clampFrequency(freq) ==
    IF ~IsFinite(freq) THEN minOscillatorFrequency
    ELSE LET bounds == getFrequencyBounds
         IN  Min2(bounds.max, Max2(bounds.min, freq))

\* A safeguard applied to every waveform.
safeguardAlways(waveType) == TRUE

\* Synth.shouldApplyFrequencySafeguard(waveType)
shouldApplyFrequencySafeguard(waveType) == waveType = "sine"

\* now + seconds, for a rational number of seconds, in 1/100 s.
TimeAfter(t, seconds) ==
    RatAdd(RatInt(t), [n |-> TimeScale * seconds.n, d |-> seconds.d])

\* scheduleDetuneRamp: minDetune and maxDetune of a start frequency.
detuneBounds(startFreq) ==
    LET safeStartFreq == clampFrequency(startFreq)
        bounds == getFrequencyBounds
    IN  [min |-> Log2Cents(bounds.min, safeStartFreq),
         max |-> Log2Cents(bounds.max, safeStartFreq)]

\* A bounds test that accepts every target: the ramp is never clamped.
withinBoundsAlways(targetDetune, minDetune, maxDetune) == TRUE

\* scheduleDetuneRamp: withinBounds
withinBounds(targetDetune, minDetune, maxDetune) ==
    targetDetune >= minDetune /\ targetDetune <= maxDetune

\* The limit taken from the wrong side: the lower one for a rising note.
detuneLimitSwapped(driftRate, minDetune, maxDetune) ==
    IF driftRate > 0 THEN minDetune ELSE maxDetune

\* scheduleDetuneRamp: detuneLimit
detuneLimitOf(driftRate, minDetune, maxDetune) ==
    IF driftRate > 0 THEN maxDetune ELSE minDetune

\* The limit reached in half the time: a ramp twice as steep as the rate.
timeToLimitHalved(detuneLimit, driftRate) == Rat(detuneLimit, 2 * driftRate)

\* The time to the limit with the wrong sign.
timeToLimitNegated(detuneLimit, driftRate) == Rat(0 - detuneLimit, driftRate)

\* scheduleDetuneRamp: timeToLimit, in seconds
timeToLimitOf(detuneLimit, driftRate) == Rat(detuneLimit, driftRate)

\* Synth.scheduleDetuneRamp(detuneParam, now, startFreq, driftRate, duration,
\* useSafeguard): the calls it makes on the detune parameter, in order.
scheduleDetuneRamp(osc, t, startFreq, driftRate, duration, useSafeguard) ==
    LET targetDetune == driftRate * duration
        atEnd == TimeAfter(t, RatInt(duration))
        unclamped ==
            <<Instr(osc, "detune", "linearRampToValueAtTime", targetDetune, atEnd)>>
        minDetune == detuneBounds(startFreq).min
        maxDetune == detuneBounds(startFreq).max
        detuneLimit == detuneLimitOf(driftRate, minDetune, maxDetune)
        timeToLimit == timeToLimitOf(detuneLimit, driftRate)
    IN  IF ~useSafeguard THEN unclamped
        ELSE IF ~IsFinite(minDetune) \/ ~IsFinite(maxDetune) \/ driftRate = 0
        THEN unclamped
        ELSE IF withinBounds(targetDetune, minDetune, maxDetune) THEN unclamped
        ELSE IF RatLeq(timeToLimit, RatInt(0))
        THEN <<Instr(osc, "detune", "setValueAtTime", detuneLimit, RatInt(t)),
               Instr(osc, "detune", "setValueAtTime", detuneLimit, atEnd)>>
        ELSE IF RatLeq(RatInt(duration), timeToLimit) THEN unclamped
        ELSE <<Instr(osc, "detune", "linearRampToValueAtTime", detuneLimit,
                     TimeAfter(t, timeToLimit)),
               Instr(osc, "detune", "setValueAtTime", detuneLimit, atEnd)>>

----------------------------------------------------------------------------
(* The inputs the callers draw from.                                       *)

MaxVoices == 2
MaxNow == 2

\* Key identifiers: a note index, a MIDI voice id, and a string that names
\* a property every plain object inherits.
Keys == {"0", "midi:0:69", "toString"}

\* Property names that a plain object ({}) inherits from Object.prototype.
ObjectPrototypeKeys ==
    {"toString", "constructor", "__proto__", "hasOwnProperty", "valueOf"}

\* What the callers of the sequences of calls pass.
Freqs == {440 * HzScale}
RandomSources == {<<50, 25>>}
SettingsSet ==
    {[variance |-> 0, waveType |-> "sine", cutoff |-> 1000, octaveShift |-> 0,
      driftDirection |-> 100, driftMode |-> "uniform", driftMean |-> 25,
      driftSpread |-> 0],
     [variance |-> 0, waveType |-> "square", cutoff |-> 1000, octaveShift |-> 0,
      driftDirection |-> 100, driftMode |-> "uniform", driftMean |-> 0,
      driftSpread |-> 0]}

\* What a single note on a fresh engine is tried with.
NoteKeys == {"0"}
NoteFreqs == {440 * HzScale, 30000 * HzScale}
NoteSources == {<<50, 25>>, <<0, 99, 0, 1>>}
NoteSettings ==
    [variance : {0, 50}, waveType : {"sine", "square"}, cutoff : {1000},
     octaveShift : {0, 1}, driftDirection : {0, 100},
     driftMode : {"gaussian", "uniform"}, driftMean : {0 - 10, 0, 25},
     driftSpread : {0, 5}]

\* Browsers: with or without AudioParam.cancelAndHoldAtTime and
\* createDynamicsCompressor; sampleRate 0 is a context that reports none.
Environments ==
    [cancelAndHold : BOOLEAN, compressor : BOOLEAN, sampleRate : {48000}]
NoteEnvironments ==
    [cancelAndHold : BOOLEAN, compressor : BOOLEAN, sampleRate : {0, 48000}]

----------------------------------------------------------------------------
(* The state of a Synth.                                                   *)

NoSettings ==
    [variance |-> 0, waveType |-> "", cutoff |-> 0, octaveShift |-> 0,
     driftDirection |-> 0, driftMode |-> "", driftMean |-> 0, driftSpread |-> 0]

\* The direction, speed and driftRate of a call that plans no drift.
NoDrift == [direction |-> 0, speed |-> 0, rate |-> 0]

\* The record of a call: its arguments and what it did (nodes created,
\* draws taken from Math.random, the drift it planned, calls made on audio
\* nodes, in order, and whether it threw).
NoCall ==
    [op |-> "none", keyId |-> "", freq |-> 0, settings |-> NoSettings,
     src |-> <<>>, raised |-> FALSE, created |-> 0, draws |-> 0,
     drift |-> NoDrift, instrs |-> <<>>]

Returned(op, keyId) == [NoCall EXCEPT !.op = op, !.keyId = keyId]

NoRamp ==
    [called |-> FALSE, startFreq |-> 0, driftRate |-> 0, duration |-> 0,
     useSafeguard |-> FALSE, safeStartFreq |-> 0,
     bounds |-> [min |-> 0, max |-> 0], out |-> <<>>]

\* Node ids of the master chain (voice nodes are numbered from 1).
MasterGainNode == 0 - 1
MasterLimiterNode == 0 - 2
DestinationNode == 0 - 3

\* No gaussianRandom() call in progress.
NoGauss == [pc |-> "idle", u |-> 0, v |-> 0, z |-> 0, draws |-> 0]

\* The #cutoffVal label before any slider input has written it.
NoLabel == 0 - 1

NoMaster ==
    [masterGain |-> FALSE, masterLimiter |-> FALSE,
     masterOutputConnected |-> FALSE, state |-> "none",
     contexts |-> 0, gains |-> 0, destinationConnections |-> 0]

\* The page as the document gives it and the main scope declares it: the
\* US layout, no octave shift, no key element with the class 'active', the
\* controls at their values, the drift toggle unchecked (Gaussian), both
\* modes' remembered values 0, and the labels not yet written.
NoPage ==
    [currentLayout |-> "US", octaveShift |-> 0, active |-> {},
     variance |-> 0, waveform |-> "sine", driftDirection |-> 50,
     driftMode |-> FALSE, driftMean |-> 0, driftSpread |-> 0,
     driftDefaults |-> [gaussian |-> [mean |-> 0, spread |-> 0],
                        uniform |-> [mean |-> 0, spread |-> 0]],
     driftLabels |-> "gaussian",
     varianceVal |-> NoLabel, driftDirectionVal |-> NoLabel,
     driftMeanVal |-> NoLabel, driftSpreadVal |-> NoLabel,
     octaveVal |-> [plus |-> FALSE, n |-> NoLabel]]

\* Not recording: no recorder nodes, Start enabled and Stop disabled (as
\* the document has them), no buffers, nothing downloaded (downloaded
\* holds each WAV), no object URL (0 is null), no timer to revoke one;
\* revoked counts the calls of URL.revokeObjectURL for each URL made.
NoRecorder ==
    [isRecording |-> FALSE, recorderNode |-> FALSE,
     recorderSilentGain |-> FALSE, recorderInputConnected |-> FALSE,
     recordedLength |-> 0, recordedBuffers |-> <<>>,
     startDisabled |-> FALSE, stopDisabled |-> TRUE,
     downloaded |-> <<>>, lastRecordingUrl |-> 0, timers |-> {},
     revoked |-> <<>>]

\* MIDI not enabled: no access, nothing selected, no note active; the
\* select and the Refresh button disabled.  ports are the devices plugged
\* in, in the order of the input map, pending the access requests not yet
\* answered, handlers the inputs whose onmidimessage is handleMidiMessage.
NoMidi ==
    [ports |-> <<>>, pending |-> 0, midiAccess |-> FALSE,
     selectedMidiInput |-> "",
     selectedMidiInputId |-> "", handlers |-> {}, midiActiveNotes |-> <<>>,
     status |-> <<"MIDI access not enabled">>, options |-> <<>>,
     selectValue |-> "", selectDisabled |-> TRUE, enableDisabled |-> FALSE,
     refreshDisabled |-> TRUE]

\* new Synth(), before any call.
Init ==
    /\ env \in Environments
    /\ audioCtx = FALSE
    /\ activeVoices = << >>
    /\ nodes = << >>
    /\ master = NoMaster
    /\ now = 0
    /\ last = NoCall
    /\ ramp = NoRamp
    /\ cutoffVal = NoLabel
    /\ gauss = NoGauss
    /\ page = NoPage
    /\ recorder = NoRecorder
    /\ midi = NoMidi

\* A lookup that finds no voice under any key.
lookupVoiceNever(keyId) ==
    [truthy |-> FALSE, osc |-> 0, gainNode |-> 0, filter |-> 0]

\* this.activeVoices[keyId]: an own property, else what the prototype chain
\* gives (a function or object with no osc, gainNode or filter), else
\* undefined.  Node id 0 stands for undefined.
lookupVoice(keyId) ==
    IF keyId \in DOMAIN activeVoices
    THEN [truthy |-> TRUE, osc |-> activeVoices[keyId].osc,
          gainNode |-> activeVoices[keyId].gainNode,
          filter |-> activeVoices[keyId].filter]
    ELSE [truthy |-> keyId \in ObjectPrototypeKeys, osc |-> 0, gainNode |-> 0,
          filter |-> 0]

\* parseInt and parseFloat of a setting.  The settings of the model are
\* whole numbers (or NaN for an unparsable text): parseInt has no fraction
\* to drop, and gives NaN for Infinity, which parseFloat keeps.
parseInt(x) == IF IsFinite(x) THEN x ELSE NaN
parseFloat(x) == x

\* x || 0: NaN and 0 are falsy.
OrZero(x) == IF x = NaN \/ x = 0 THEN 0 ELSE x

\* x >= 0: a test that also takes a setting of 0 for drift.
NonNegative(x) == x # NaN /\ x >= 0

\* x > 0 in JavaScript: false for NaN.
Positive(x) == x # NaN /\ x > 0

\* gainParam.value at the current time: the attack ramp from 0 at the
\* node's creation to baseVoiceGain noteAttackTime later.
gainValue(gainNode) ==
    LET elapsed == now - nodes[gainNode].at
    IN  IF elapsed >= noteAttackTime THEN baseVoiceGain
        ELSE (baseVoiceGain * elapsed) \div noteAttackTime

----------------------------------------------------------------------------
(* Synth.init()                                                            *)

limiterSetup ==
    <<Instr(MasterLimiterNode, "threshold", "setValueAtTime", 0 - 10, RatInt(now)),
      Instr(MasterLimiterNode, "knee", "setValueAtTime", 10, RatInt(now)),
      Instr(MasterLimiterNode, "ratio", "setValueAtTime", 20, RatInt(now)),
      Instr(MasterLimiterNode, "attack", "setValueAtTime", 10, RatInt(now)),
      Instr(MasterLimiterNode, "release", "setValueAtTime", 1200, RatInt(now)),
      Instr(MasterGainNode, "node", "connect", MasterLimiterNode, RatInt(now)),
      Instr(MasterLimiterNode, "node", "connect", DestinationNode, RatInt(now))>>

\* An init that connects the master gain to the destination on every call.
initOutcomeReconnects ==
    [master |->
        [masterGain |-> TRUE, masterLimiter |-> master.masterLimiter,
         masterOutputConnected |-> TRUE, state |-> "running",
         contexts |-> master.contexts + (IF audioCtx THEN 0 ELSE 1),
         gains |-> master.gains + (IF master.masterGain THEN 0 ELSE 1),
         destinationConnections |-> master.destinationConnections + 1],
     instrs |-> <<Instr(MasterGainNode, "node", "connect", DestinationNode,
                        RatInt(now))>>]

\* What init() leaves of the master chain, and the calls it makes.
initOutcome ==
    LET newCtx == ~audioCtx
        newGain == ~master.masterGain
        newLimiter == ~master.masterLimiter /\ env.compressor
        direct == ~newLimiter /\ ~master.masterOutputConnected
    IN  [master |->
            [masterGain |-> TRUE,
             masterLimiter |-> master.masterLimiter \/ newLimiter,
             masterOutputConnected |->
                 master.masterOutputConnected \/ newLimiter \/ direct,
             state |-> "running",
             contexts |-> master.contexts + (IF newCtx THEN 1 ELSE 0),
             gains |-> master.gains + (IF newGain THEN 1 ELSE 0),
             destinationConnections |->
                 master.destinationConnections
                     + (IF newLimiter \/ direct THEN 1 ELSE 0)],
         instrs |->
            IF newLimiter THEN limiterSetup
            ELSE IF direct
            THEN <<Instr(MasterGainNode, "node", "connect", DestinationNode,
                         RatInt(now))>>
            ELSE <<>>]

SynthInit ==
    /\ audioCtx' = TRUE
    /\ master' = initOutcome.master
    /\ last' = [Returned("init", "") EXCEPT !.instrs = initOutcome.instrs]
    /\ UNCHANGED <<env, activeVoices, nodes, now, ramp, outside>>

----------------------------------------------------------------------------
(* Synth.playNote(freq, keyId, settings)                                   *)

\* Math.random() < dirProb ? 1 : -1, with dirProb = percent / 100 and the
\* draw r in 1/100.
directionAlwaysUp(dirProbPercent, r) == 1

directionOf(dirProbPercent, r) ==
    IF r * 100 < dirProbPercent * DrawScale THEN 1 ELSE 0 - 1

\* The uniform speed without the swap of inverted parameters.
uniformSpeedNoSwap(dMean, dSpread, r) ==
    dMean + (r * (dSpread - dMean)) \div DrawScale

\* The speed in uniform mode: min + Math.random() * (max - min), after the
\* swap of min and max when max < min.
uniformSpeed(dMean, dSpread, r) ==
    LET swap == dSpread < dMean
        min == IF swap THEN dSpread ELSE dMean
        max == IF swap THEN dMean ELSE dSpread
    IN  min + (r * (max - min)) \div DrawScale

\* A Gaussian speed with its sign removed.
gaussianSpeedAbs(dMean, dSpread, z) ==
    LET speed == dMean + (z * dSpread) \div DrawScale
    IN  IF speed < 0 THEN 0 - speed ELSE speed

\* The speed in Gaussian mode: dMean + gaussianRandom() * dSpread.
gaussianSpeed(dMean, dSpread, z) == dMean + (z * dSpread) \div DrawScale

\* A drift whose speed takes the draw of the direction again.
driftPlanDirectionDrawAgain(settings, dMean, dSpread, src, pos) ==
    LET dirProb == parseInt(settings.driftDirection)
        direction == directionOf(dirProb, DrawAt(src, pos + 1))
        g == gaussianRandom(src, pos)
        speed == IF settings.driftMode = "uniform"
                 THEN uniformSpeed(dMean, dSpread, DrawAt(src, pos + 1))
                 ELSE gaussianSpeed(dMean, dSpread, g.z)
    IN  [direction |-> direction, speed |-> speed,
         rate |-> direction * speed,
         pos |-> IF settings.driftMode = "uniform" THEN pos + 1 ELSE g.pos]

\* The drift rate of a note and the draws it takes: direction, then speed.
driftPlan(settings, dMean, dSpread, src, pos) ==
    LET dirProb == parseInt(settings.driftDirection)
        direction == directionOf(dirProb, DrawAt(src, pos + 1))
        g == gaussianRandom(src, pos + 1)
        speed == IF settings.driftMode = "uniform"
                 THEN uniformSpeed(dMean, dSpread, DrawAt(src, pos + 2))
                 ELSE gaussianSpeed(dMean, dSpread, g.z)
    IN  [direction |-> direction, speed |-> speed,
         rate |-> direction * speed,
         pos |-> IF settings.driftMode = "uniform" THEN pos + 2 ELSE g.pos]

\* A node the context creates; stopAt is the time of a scheduled stop, -1
\* when there is none.  key names the voice the node was created for.
Node(kind, keyId) ==
    [kind |-> kind, key |-> keyId, at |-> now, stopAt |-> 0 - 1]

\* OscillatorNode.type, as a number.
WaveTypeNames == <<"sine", "square", "sawtooth", "triangle">>
waveTypeIndex(waveType) ==
    CHOOSE i \in 1..Len(WaveTypeNames) : WaveTypeNames[i] = waveType

\* The ramp scheduled first and the detune reset after it.
applyDriftRampFirst(osc, startFreq, driftRate, useSafeguard) ==
    scheduleDetuneRamp(osc, now, startFreq, driftRate,
                       DRIFT_DURATION_SECONDS, useSafeguard)
    \o <<Instr(osc, "detune", "setValueAtTime", 0, RatInt(now))>>

\* "Apply drift": the detune reset at note-on, then the 24 hour ramp.
applyDrift(osc, startFreq, driftRate, useSafeguard) ==
    <<Instr(osc, "detune", "setValueAtTime", 0, RatInt(now))>>
    \o scheduleDetuneRamp(osc, now, startFreq, driftRate,
                          DRIFT_DURATION_SECONDS, useSafeguard)

\* What a playNote that gets past its two early returns does:
\* the calls it makes, in order, and the draws it takes.
playNoteEffects(freq, settings, src) ==
    LET baseFreq == Shift2(freq, OrZero(parseInt(settings.octaveShift)))
        pitch == getGaussianPitch(baseFreq, settings.variance, src, 0)
        finalFreq == pitch.freq
        osc == Len(nodes) + 1
        filter == Len(nodes) + 2
        gainNode == Len(nodes) + 3
        useFirefoxSineSafeguard == shouldApplyFrequencySafeguard(settings.waveType)
        startFreq == IF useFirefoxSineSafeguard THEN clampFrequency(finalFreq)
                     ELSE finalFreq
        dMean == parseFloat(settings.driftMean)
        dSpread == parseFloat(settings.driftSpread)
        drifting == Positive(dMean) \/ Positive(dSpread)
        plan == driftPlan(settings, dMean, dSpread, src, pitch.pos)
        drift ==
            IF drifting
            THEN applyDrift(osc, startFreq, plan.rate, useFirefoxSineSafeguard)
            ELSE <<>>
    IN  [osc |-> osc, filter |-> filter, gainNode |-> gainNode,
         draws |-> IF drifting THEN plan.pos ELSE pitch.pos,
         drift |-> IF drifting
                   THEN [direction |-> plan.direction, speed |-> plan.speed,
                         rate |-> plan.rate]
                   ELSE NoDrift,
         instrs |->
            <<Instr(osc, "type", "assign", waveTypeIndex(settings.waveType),
                    RatInt(now)),
              Instr(osc, "frequency", "setValueAtTime", startFreq, RatInt(now))>>
            \o drift
            \o <<Instr(filter, "frequency", "setValueAtTime", settings.cutoff,
                       RatInt(now)),
                 Instr(filter, "Q", "assign", 1, RatInt(now)),
                 Instr(gainNode, "gain", "setValueAtTime", 0, RatInt(now)),
                 Instr(gainNode, "gain", "linearRampToValueAtTime",
                       baseVoiceGain, RatInt(now + noteAttackTime)),
                 Instr(osc, "node", "connect", filter, RatInt(now)),
                 Instr(filter, "node", "connect", gainNode, RatInt(now)),
                 Instr(gainNode, "node", "connect", MasterGainNode, RatInt(now)),
                 Instr(osc, "node", "start", 0, RatInt(now))>>]

\* this.activeVoices[keyId] = { osc, gainNode, filter }
addVoice(keyId, voice) ==
    [k \in DOMAIN activeVoices \cup {keyId} |->
        IF k = keyId THEN voice ELSE activeVoices[k]]

\* A stopNote that leaves the voice in the table.
removeVoiceKept(keyId) == activeVoices

\* A stopNote that empties the table.
removeVoiceAll(keyId) == << >>

\* delete this.activeVoices[keyId]
removeVoice(keyId) ==
    [k \in DOMAIN activeVoices \ {keyId} |-> activeVoices[k]]

PlayNote(freq, keyId, settings, src) ==
    IF ~audioCtx \/ lookupVoice(keyId).truthy
    THEN /\ last' = [Returned("playNote", keyId) EXCEPT
                        !.freq = freq, !.settings = settings, !.src = src]
         /\ UNCHANGED <<env, audioCtx, activeVoices, nodes, master, now, ramp, outside>>
    ELSE LET e == playNoteEffects(freq, settings, src)
         IN  /\ Len(nodes) < 3 * MaxVoices
             /\ nodes' = nodes \o <<Node("oscillator", keyId),
                                    Node("filter", keyId),
                                    Node("gain", keyId)>>
             /\ activeVoices' =
                    addVoice(keyId, [osc |-> e.osc, gainNode |-> e.gainNode,
                                     filter |-> e.filter])
             /\ last' = [op |-> "playNote", keyId |-> keyId, freq |-> freq,
                         settings |-> settings, src |-> src, raised |-> FALSE,
                         created |-> 3, draws |-> e.draws, drift |-> e.drift,
                         instrs |-> e.instrs]
             /\ UNCHANGED <<env, audioCtx, master, now, ramp, outside>>

----------------------------------------------------------------------------
(* Synth.stopNote(keyId)                                                   *)

\* Synth.holdGainAutomation(gainParam, now)
holdGainAutomation(gainNode, t) ==
    IF env.cancelAndHold
    THEN <<Instr(gainNode, "gain", "cancelAndHoldAtTime", 0, RatInt(t))>>
    ELSE LET currentValue == gainValue(gainNode)
         IN  <<Instr(gainNode, "gain", "cancelScheduledValues", 0, RatInt(t)),
               Instr(gainNode, "gain", "setValueAtTime", currentValue, RatInt(t))>>

\* A release that starts from the current gain, without the floor.
stopNoteEffectsNoFloor(osc, gainNode) ==
    LET releaseStart == gainValue(gainNode)
    IN  holdGainAutomation(gainNode, now)
        \o <<Instr(gainNode, "gain", "setValueAtTime", releaseStart, RatInt(now)),
             Instr(gainNode, "gain", "exponentialRampToValueAtTime",
                   releaseFloorGain, RatInt(now + releaseTime)),
             Instr(osc, "node", "stop", 0, RatInt(now + stopDelay))>>

\* A release that stops the oscillator when the gain ramp begins.
stopNoteEffectsEarlyStop(osc, gainNode) ==
    LET releaseStart == Max2(gainValue(gainNode), releaseFloorGain)
    IN  holdGainAutomation(gainNode, now)
        \o <<Instr(gainNode, "gain", "setValueAtTime", releaseStart, RatInt(now)),
             Instr(gainNode, "gain", "exponentialRampToValueAtTime",
                   releaseFloorGain, RatInt(now + releaseTime)),
             Instr(osc, "node", "stop", 0, RatInt(now))>>

\* The calls of a stopNote that found a voice with an oscillator and a gain.
stopNoteEffects(osc, gainNode) ==
    LET releaseStart == Max2(gainValue(gainNode), releaseFloorGain)
    IN  holdGainAutomation(gainNode, now)
        \o <<Instr(gainNode, "gain", "setValueAtTime", releaseStart, RatInt(now)),
             Instr(gainNode, "gain", "exponentialRampToValueAtTime",
                   releaseFloorGain, RatInt(now + releaseTime)),
             Instr(osc, "node", "stop", 0, RatInt(now + stopDelay))>>

StopNote(keyId) ==
    LET voice == lookupVoice(keyId)
    IN  IF ~voice.truthy \/ ~audioCtx
        THEN /\ last' = Returned("stopNote", keyId)
             /\ UNCHANGED <<env, audioCtx, activeVoices, nodes, master, now, ramp, outside>>
        ELSE IF voice.gainNode = 0
        \* gainNode is undefined: reading gainNode.gain throws a TypeError.
        THEN /\ last' = [Returned("stopNote", keyId) EXCEPT !.raised = TRUE]
             /\ UNCHANGED <<env, audioCtx, activeVoices, nodes, master, now, ramp, outside>>
        ELSE /\ last' = [Returned("stopNote", keyId) EXCEPT
                            !.instrs = stopNoteEffects(voice.osc, voice.gainNode)]
             /\ nodes' = [nodes EXCEPT ![voice.osc].stopAt = now + stopDelay]
             /\ activeVoices' = removeVoice(keyId)
             /\ UNCHANGED <<env, audioCtx, master, now, ramp, outside>>

----------------------------------------------------------------------------
(* The cutoff slider's input handler.                                      *)

\* Own property names in the order Object.keys, Object.values and for-in
\* give them: integer indexes first, then strings as inserted (the keys of
\* the model hold one of each kind).
OwnKeyOrder == <<"0", "midi:0:69", "toString">>

\* Object.values(synth.activeVoices)
objectValues ==
    LET keys == SelectSeq(OwnKeyOrder, LAMBDA k : k \in DOMAIN activeVoices)
    IN  [i \in 1..Len(keys) |-> activeVoices[keys[i]]]

\* A handler that sets the cutoff on every filter ever created.
cutoffInstrsEveryFilter(val) ==
    LET filters == SelectSeq([i \in 1..Len(nodes) |-> i],
                             LAMBDA n : nodes[n].kind = "filter")
    IN  [i \in 1..Len(filters) |->
            Instr(filters[i], "frequency", "setValueAtTime", val, RatInt(now))]

\* voice.filter.frequency.setValueAtTime(val, now) for each voice of the
\* table that has a filter.
cutoffInstrs(val) ==
    LET voices == SelectSeq(objectValues, LAMBDA voice : voice.filter # 0)
    IN  [i \in 1..Len(voices) |->
            Instr(voices[i].filter, "frequency", "setValueAtTime", val,
                  RatInt(now))]

CutoffInput(val) ==
    /\ cutoffVal' = val
    /\ last' = [Returned("cutoff", "") EXCEPT
                    !.instrs = IF audioCtx THEN cutoffInstrs(val) ELSE <<>>]
    /\ UNCHANGED <<env, audioCtx, activeVoices, nodes, master, now, ramp, gauss,
                   page, recorder, midi>>

----------------------------------------------------------------------------
(* The audio clock advances between calls.                                 *)

Tick ==
    /\ now < MaxNow
    /\ now' = now + 1
    /\ last' = NoCall
    /\ UNCHANGED <<env, audioCtx, activeVoices, nodes, master, ramp, outside>>

Next ==
    \/ SynthInit
    \/ \E freq \in Freqs, keyId \in Keys, settings \in SettingsSet,
          src \in RandomSources : PlayNote(freq, keyId, settings, src)
    \/ \E keyId \in Keys : StopNote(keyId)
    \/ Tick

Spec == Init /\ [][Next]_vars

----------------------------------------------------------------------------
(* The engine with the cutoff slider, on one browser.                      *)

CutoffValues == {500, 20000}

InitCutoff ==
    /\ env = [cancelAndHold |-> TRUE, compressor |-> TRUE, sampleRate |-> 48000]
    /\ audioCtx = FALSE
    /\ activeVoices = << >>
    /\ nodes = << >>
    /\ master = NoMaster
    /\ now = 0
    /\ last = NoCall
    /\ ramp = NoRamp
    /\ cutoffVal = NoLabel
    /\ gauss = NoGauss
    /\ page = NoPage
    /\ recorder = NoRecorder
    /\ midi = NoMidi

NextCutoff ==
    \/ SynthInit
    \/ \E freq \in Freqs, keyId \in Keys, settings \in SettingsSet,
          src \in RandomSources : PlayNote(freq, keyId, settings, src)
    \/ \E keyId \in Keys : StopNote(keyId)
    \/ \E val \in CutoffValues : CutoffInput(val)
    \/ Tick

SpecCutoff == InitCutoff /\ [][NextCutoff]_vars

----------------------------------------------------------------------------
(* One note on an initialized engine, with the drift settings and the      *)
(* draws varied: direction probabilities 0, 50 and 100, parameters in and  *)
(* out of order and negative, draws on both sides of the probability, a    *)
(* source whose normal deviate is 0 (v = 0.25), and one that draws zeros.  *)

DriftSources == {<<50, 25>>, <<90, 50, 25>>, <<49, 0>>, <<0, 99, 0, 1>>}
DriftSettings ==
    [variance : {0}, waveType : {"sine", "square"}, cutoff : {1000},
     octaveShift : {0}, driftDirection : {0, 50, 100},
     driftMode : {"gaussian", "uniform"}, driftMean : {0 - 10, 0, 5, 25},
     driftSpread : {0, 5, 20}]

NextDrift ==
    \/ SynthInit
    \/ \E freq \in Freqs, keyId \in NoteKeys, settings \in DriftSettings,
          src \in DriftSources :
            /\ audioCtx
            /\ nodes = << >>
            /\ PlayNote(freq, keyId, settings, src)
    \/ \E keyId \in NoteKeys : StopNote(keyId)
    \/ Tick

SpecDrift == InitCutoff /\ [][NextDrift]_vars

----------------------------------------------------------------------------
(* One note on an initialized engine, with the wider inputs.               *)

NextNote ==
    \/ SynthInit
    \/ \E freq \in NoteFreqs, keyId \in NoteKeys, settings \in NoteSettings,
          src \in NoteSources :
            /\ audioCtx
            /\ nodes = << >>
            /\ PlayNote(freq, keyId, settings, src)
    \/ \E keyId \in Keys : StopNote(keyId)
    \/ Tick

InitNote ==
    /\ env \in NoteEnvironments
    /\ audioCtx = FALSE
    /\ activeVoices = << >>
    /\ nodes = << >>
    /\ master = NoMaster
    /\ now = 0
    /\ last = NoCall
    /\ ramp = NoRamp
    /\ cutoffVal = NoLabel
    /\ gauss = NoGauss
    /\ page = NoPage
    /\ recorder = NoRecorder
    /\ midi = NoMidi

SpecNote == InitNote /\ [][NextNote]_vars

----------------------------------------------------------------------------
(* One note on an initialized engine, with the pitch inputs varied: note   *)
(* frequencies below, within and above the bounds, octave shifts of both   *)
(* signs and an unparsable one, variance 0 and not 0.                      *)

PitchFreqs == {1 * HzScale, 440 * HzScale, 30000 * HzScale}
PitchSources == {<<50, 25>>, <<90, 50, 25>>, <<0, 99, 0, 1>>}
PitchSettings ==
    [variance : {0, 50, 1200}, waveType : {"sine", "square"}, cutoff : {1000},
     octaveShift : {NaN, 0 - 1, 0, 1}, driftDirection : {100},
     driftMode : {"uniform"}, driftMean : {0, 25}, driftSpread : {0}]

InitPitch ==
    /\ env \in [cancelAndHold : {TRUE}, compressor : {TRUE},
                sampleRate : {0, 48000}]
    /\ audioCtx = FALSE
    /\ activeVoices = << >>
    /\ nodes = << >>
    /\ master = NoMaster
    /\ now = 0
    /\ last = NoCall
    /\ ramp = NoRamp
    /\ cutoffVal = NoLabel
    /\ gauss = NoGauss
    /\ page = NoPage
    /\ recorder = NoRecorder
    /\ midi = NoMidi

NextPitch ==
    \/ SynthInit
    \/ \E freq \in PitchFreqs, keyId \in NoteKeys, settings \in PitchSettings,
          src \in PitchSources :
            /\ audioCtx
            /\ nodes = << >>
            /\ PlayNote(freq, keyId, settings, src)
    \/ \E keyId \in NoteKeys : StopNote(keyId)
    \/ Tick

SpecPitch == InitPitch /\ [][NextPitch]_vars

----------------------------------------------------------------------------
(* gaussianRandom() step by step: the two loops that draw until the draw   *)
(* is not 0, then the deviate.  The draws are those Math.random() can      *)
(* return, 0 among them.                                                   *)

MaxGaussDraws == 4
GaussDraws == {0, 1, 10, 25, 50, 75, 99}

\* draws + 1, no longer counted beyond MaxGaussDraws.
CountDraw(n) == IF n < MaxGaussDraws THEN n + 1 ELSE n

\* A loop test that lets every draw through.
isZeroNever(x) == FALSE

\* u === 0, v === 0: the tests of the two while loops.
isZero(x) == x = 0

\* Math.sqrt(-2.0 * Math.log(u)) * Math.cos(2.0 * Math.PI * v), in 1/100;
\* Math.log(0) is -Infinity, and the product with it Infinity, -Infinity
\* or NaN.
deviate(u, v) ==
    LET cos == IF v = 0 THEN DrawScale ELSE CosTwoPiTable[v]
    IN  IF u = 0
        THEN (IF cos = 0 THEN NaN ELSE IF cos > 0 THEN Infinity ELSE 0 - Infinity)
        ELSE (SqrtNeg2LogTable[u] * cos) \div DrawScale

\* let u = 0, v = 0;
GaussCall ==
    /\ gauss.pc \in {"idle", "done"}
    /\ gauss' = [pc |-> "drawU", u |-> 0, v |-> 0, z |-> 0, draws |-> 0]
    /\ UNCHANGED <<env, audioCtx, activeVoices, nodes, master, now, last, ramp,
                   cutoffVal, page, recorder, midi>>

\* while(u === 0) u = Math.random();  one turn of the loop, or its exit.
DrawU(r) ==
    /\ gauss.pc = "drawU"
    /\ IF isZero(gauss.u)
       THEN gauss' = [gauss EXCEPT !.u = r, !.draws = CountDraw(gauss.draws)]
       ELSE gauss' = [gauss EXCEPT !.pc = "drawV"]
    /\ UNCHANGED <<env, audioCtx, activeVoices, nodes, master, now, last, ramp,
                   cutoffVal, page, recorder, midi>>

\* while(v === 0) v = Math.random();  one turn of the loop, or its exit.
DrawV(r) ==
    /\ gauss.pc = "drawV"
    /\ IF isZero(gauss.v)
       THEN gauss' = [gauss EXCEPT !.v = r, !.draws = CountDraw(gauss.draws)]
       ELSE gauss' = [gauss EXCEPT !.pc = "return"]
    /\ UNCHANGED <<env, audioCtx, activeVoices, nodes, master, now, last, ramp,
                   cutoffVal, page, recorder, midi>>

\* return Math.sqrt(-2.0 * Math.log(u)) * Math.cos(2.0 * Math.PI * v);
GaussReturn ==
    /\ gauss.pc = "return"
    /\ gauss' = [gauss EXCEPT !.pc = "done", !.z = deviate(gauss.u, gauss.v)]
    /\ UNCHANGED <<env, audioCtx, activeVoices, nodes, master, now, last, ramp,
                   cutoffVal, page, recorder, midi>>

\* A turn of the first loop whose draw is not 0, or the loop's exit.
DrawUNonZero == \E r \in GaussDraws \ {0} : DrawU(r)

\* A turn of the second loop whose draw is not 0, or the loop's exit.
DrawVNonZero == \E r \in GaussDraws \ {0} : DrawV(r)

NextGauss ==
    \/ GaussCall
    \/ \E r \in GaussDraws : DrawU(r)
    \/ \E r \in GaussDraws : DrawV(r)
    \/ GaussReturn

\* A uniform source does not return 0 for ever: a draw that is not 0 comes
\* in the end, and a call that can return does.
SpecGauss ==
    /\ InitCutoff
    /\ [][NextGauss]_vars
    /\ WF_vars(DrawUNonZero)
    /\ WF_vars(DrawVNonZero)
    /\ WF_vars(GaussReturn)

----------------------------------------------------------------------------
(* scheduleDetuneRamp as a function of its arguments: any start frequency  *)
(* (below, on, between and above the bounds, and NaN), rates of both       *)
(* signs, with and without the safeguard, on contexts with and without a   *)
(* sample rate.  playNote, its only caller, returns early until init has   *)
(* made the context.                                                       *)

RampSampleRates == {0, 2, 44100, 48000}
RampStartFreqs ==
    {50, 1 * HzScale, 440 * HzScale, 19845 * HzScale, 21600 * HzScale,
     30000 * HzScale, NaN, Infinity, 0 - Infinity}
RampRates == {0 - 40, 0 - 1, 0, 1, 40}
RampDurations == {60, DRIFT_DURATION_SECONDS}
RampNows == {0, 3}

InitRamp ==
    /\ env \in [cancelAndHold : {TRUE}, compressor : {TRUE},
                sampleRate : RampSampleRates]
    /\ audioCtx = FALSE
    /\ activeVoices = << >>
    /\ nodes = << >>
    /\ master = NoMaster
    /\ now \in RampNows
    /\ last = NoCall
    /\ ramp = NoRamp
    /\ cutoffVal = NoLabel
    /\ gauss = NoGauss
    /\ page = NoPage
    /\ recorder = NoRecorder
    /\ midi = NoMidi

CallRamp(startFreq, driftRate, duration, useSafeguard) ==
    /\ ramp' = [called |-> TRUE, startFreq |-> startFreq,
                driftRate |-> driftRate, duration |-> duration,
                useSafeguard |-> useSafeguard,
                safeStartFreq |-> IF useSafeguard THEN clampFrequency(startFreq)
                                  ELSE 0,
                bounds |-> IF useSafeguard THEN getFrequencyBounds
                           ELSE [min |-> 0, max |-> 0],
                out |-> scheduleDetuneRamp(1, now, startFreq, driftRate,
                                           duration, useSafeguard)]
    /\ UNCHANGED <<env, audioCtx, activeVoices, nodes, master, now, last, outside>>

NextRamp ==
    \/ SynthInit
    \/ \E startFreq \in RampStartFreqs, driftRate \in RampRates,
          duration \in RampDurations, useSafeguard \in BOOLEAN :
            /\ audioCtx
            /\ CallRamp(startFreq, driftRate, duration, useSafeguard)

SpecRamp == InitRamp /\ [][NextRamp]_vars

----------------------------------------------------------------------------
(* The page: what the handlers of the main scope call on the Synth.  A     *)
(* handler that calls several methods is one step; the outcome of each     *)
(* call is computed from the state the calls before it left.               *)

\* The keys of the notes table the model presses (C4 and G#4): the index,
\* the frequency, and the key of each layout.
notes ==
    [idx \in {"0", "8"} |->
        IF idx = "0" THEN [freq |-> 26163, keyUS |-> "a", keyDE |-> "a"]
        ELSE [freq |-> 41530, keyUS |-> "y", keyDE |-> "z"]]

\* The indexes of notes, ascending.
noteIndexes == <<"0", "8">>

\* The value of the cutoff slider in the document.
cutoffDefault == 20000

\* Settings that stay what the document first had.
getSettingsOfDocument ==
    [variance |-> 0, waveType |-> "sine", cutoff |-> cutoffDefault,
     octaveShift |-> 0, driftDirection |-> 50, driftMode |-> "gaussian",
     driftMean |-> 0, driftSpread |-> 0]

\* getSettings(): the controls as they are when a note is played.  The
\* cutoff slider's value is what its input handler last showed.
getSettings ==
    [variance |-> page.variance, waveType |-> page.waveform,
     cutoff |-> IF cutoffVal = NoLabel THEN cutoffDefault ELSE cutoffVal,
     octaveShift |-> page.octaveShift,
     driftDirection |-> page.driftDirection,
     driftMode |-> IF page.driftMode THEN "uniform" ELSE "gaussian",
     driftMean |-> page.driftMean, driftSpread |-> page.driftSpread]

\* setKeyActive(keyId, isActive) on the set of key elements that have the
\* class 'active': an id with no element 'key-' + keyId changes nothing.
setKeyActive(active, keyId, isActive) ==
    IF keyId \notin DOMAIN notes THEN active
    ELSE IF isActive THEN active \cup {keyId}
    ELSE active \ {keyId}

\* What a playNote that got past its early returns leaves: the voice e in
\* the table under keyId, and its three nodes.
voiceStarted(keyId, e) ==
    [started |-> TRUE,
     activeVoices |->
         addVoice(keyId, [osc |-> e.osc, gainNode |-> e.gainNode,
                          filter |-> e.filter]),
     nodes |-> nodes \o <<Node("oscillator", keyId), Node("filter", keyId),
                          Node("gain", keyId)>>,
     created |-> 3, draws |-> e.draws, drift |-> e.drift, instrs |-> e.instrs]

\* synth.playNote(freq, keyId, settings) on a synth whose context is there
\* (ctx) or not: what it leaves and what it did.
playNoteOutcome(ctx, freq, keyId, settings, src) ==
    IF ~ctx \/ lookupVoice(keyId).truthy
    THEN [started |-> FALSE, activeVoices |-> activeVoices, nodes |-> nodes,
          created |-> 0, draws |-> 0, drift |-> NoDrift, instrs |-> <<>>]
    ELSE voiceStarted(keyId, playNoteEffects(freq, settings, src))

\* table[keyId], as lookupVoice reads this.activeVoices[keyId].
voiceIn(table, keyId) ==
    IF keyId \in DOMAIN table
    THEN [truthy |-> TRUE, osc |-> table[keyId].osc,
          gainNode |-> table[keyId].gainNode, filter |-> table[keyId].filter]
    ELSE [truthy |-> keyId \in ObjectPrototypeKeys, osc |-> 0, gainNode |-> 0,
          filter |-> 0]

\* synth.stopNote(keyId) on a synth whose voice table is table and whose
\* nodes are nds: what it leaves and the calls it made.  (A stop changes
\* no gain node's creation time, which is all the release reads of nodes.)
stopNoteOutcome(table, nds, keyId) ==
    LET voice == voiceIn(table, keyId)
    IN  IF ~voice.truthy \/ ~audioCtx
        THEN [activeVoices |-> table, nodes |-> nds, instrs |-> <<>>,
              raised |-> FALSE]
        ELSE IF voice.gainNode = 0
        THEN [activeVoices |-> table, nodes |-> nds, instrs |-> <<>>,
              raised |-> TRUE]
        ELSE [activeVoices |-> [k \in DOMAIN table \ {keyId} |-> table[k]],
              nodes |-> [nds EXCEPT ![voice.osc].stopAt = now + stopDelay],
              instrs |-> stopNoteEffects(voice.osc, voice.gainNode),
              raised |-> FALSE]

\* A sweep that stops the first key only.
stopEachFirstOnly(keys, st) ==
    IF keys = <<>> THEN st
    ELSE LET r == stopNoteOutcome(st.activeVoices, st.nodes, Head(keys))
         IN  [activeVoices |-> r.activeVoices, nodes |-> r.nodes,
              active |-> setKeyActive(st.active, Head(keys), FALSE),
              instrs |-> st.instrs \o r.instrs, raised |-> r.raised]

\* keys.forEach(key => stop(key)): stop(key) is synth.stopNote(key), then
\* setKeyActive(key, false); a call that throws ends the sweep.
RECURSIVE stopEach(_, _)
stopEach(keys, st) ==
    IF keys = <<>> \/ st.raised THEN st
    ELSE LET r == stopNoteOutcome(st.activeVoices, st.nodes, Head(keys))
         IN  stopEach(Tail(keys),
                      [activeVoices |-> r.activeVoices, nodes |-> r.nodes,
                       active |-> IF r.raised THEN st.active
                                  ELSE setKeyActive(st.active, Head(keys), FALSE),
                       instrs |-> st.instrs \o r.instrs,
                       raised |-> r.raised])

\* The synth and the key elements as a sweep finds them.
sweepStart ==
    [activeVoices |-> activeVoices, nodes |-> nodes, active |-> page.active,
     instrs |-> <<>>, raised |-> FALSE]

\* Object.keys(synth.activeVoices): the note indexes ascending, then the
\* other keys in the order their voices were created.
objectKeys ==
    LET indexKeys == SelectSeq(noteIndexes, LAMBDA k : k \in DOMAIN activeVoices)
        named == DOMAIN activeVoices \ DOMAIN notes
        oscs == SelectSeq([i \in 1..Len(nodes) |-> i],
                          LAMBDA i : \E k \in named : activeVoices[k].osc = i)
    IN  indexKeys
        \o [j \in 1..Len(oscs) |->
               CHOOSE k \in named : activeVoices[k].osc = oscs[j]]

\* The record of a handler of the page: the calls it made on audio nodes.
Handled(op, keyId, instrs, raised) ==
    [Returned(op, keyId) EXCEPT !.instrs = instrs, !.raised = raised]

\* play(freq, idx), from touchstart, pointerdown and keydown.
play(op, freq, idx, src) ==
    \E r \in {playNoteOutcome(audioCtx, freq, idx, getSettings, src)} :
        /\ r.started => Len(nodes) < 3 * MaxVoices
        /\ activeVoices' = r.activeVoices
        /\ nodes' = r.nodes
        /\ last' = [op |-> op, keyId |-> idx, freq |-> freq,
                    settings |-> getSettings, src |-> src, raised |-> FALSE,
                    created |-> r.created, draws |-> r.draws,
                    drift |-> r.drift, instrs |-> r.instrs]
        /\ page' = [page EXCEPT !.active = setKeyActive(@, idx, TRUE)]
        /\ UNCHANGED <<env, audioCtx, master, now, ramp, cutoffVal, gauss,
                       recorder, midi>>

\* stop(idx), from touchend, touchcancel, pointerup, pointercancel and
\* keyup.
stop(op, idx) ==
    LET r == stopNoteOutcome(activeVoices, nodes, idx)
    IN  /\ activeVoices' = r.activeVoices
        /\ nodes' = r.nodes
        /\ last' = Handled(op, idx, r.instrs, r.raised)
        /\ page' = [page EXCEPT !.active = IF r.raised THEN @
                                           ELSE setKeyActive(@, idx, FALSE)]
        /\ UNCHANGED <<env, audioCtx, master, now, ramp, cutoffVal, gauss,
                       recorder, midi>>

\* pointerdown and touchstart on the key element of note idx.
PointerDown(idx, src) == play("pointerdown", notes[idx].freq, idx, src)

\* pointerup, pointercancel, touchend and touchcancel on a key element.
PointerUp(idx) == stop("pointerup", idx)

\* The click and pointerdown handlers of the overlay: startAudio.
StartAudio == SynthInit

\* getKeyForLayout(note, layout)
getKeyForLayout(note, layout) ==
    IF layout = "DE" THEN note.keyDE ELSE note.keyUS

\* notes.findIndex(n => getKeyForLayout(n, currentLayout) === k): the
\* index, or "" for -1.
findIndex(k) ==
    LET found == SelectSeq(noteIndexes,
                           LAMBDA i : getKeyForLayout(notes[i], page.currentLayout) = k)
    IN  IF found = <<>> THEN "" ELSE Head(found)

\* updateOctaveDisplay(): a "+" before a positive shift.
octaveDisplay(shift) == [plus |-> shift > 0, n |-> shift]

\* How far the octave buttons and shortcuts are pressed either way.
MaxOctave == 1

\* octaveShift += by; updateOctaveDisplay(): the octave buttons, and the
\* octave shortcuts of the keyboard.
shiftOctave(op, by) ==
    /\ page.octaveShift + by \in (0 - MaxOctave)..MaxOctave
    /\ page' = [page EXCEPT !.octaveShift = @ + by,
                            !.octaveVal = octaveDisplay(page.octaveShift + by)]
    /\ last' = Handled(op, "", <<>>, FALSE)
    /\ UNCHANGED <<env, audioCtx, activeVoices, nodes, master, now, ramp,
                   cutoffVal, gauss, recorder, midi>>

OctaveDown == shiftOctave("octaveDown", 0 - 1)
OctaveUp == shiftOctave("octaveUp", 1)

\* The keys the keyboard sends (e.key in lower case).
KeyboardKeys == {"a", "y", "z", "x", "q"}

\* keydown (not a repeat): the octave shortcuts of the layout, else the
\* note of the key.
KeyDown(k, src) ==
    LET downKey == IF page.currentLayout = "DE" THEN "y" ELSE "z"
        upKey == "x"
        noteIdx == findIndex(k)
    IN  IF k = downKey THEN shiftOctave("keydown", 0 - 1)
        ELSE IF k = upKey THEN shiftOctave("keydown", 1)
        ELSE IF noteIdx # "" THEN play("keydown", notes[noteIdx].freq, noteIdx, src)
        ELSE /\ last' = Handled("keydown", "", <<>>, FALSE)
             /\ UNCHANGED <<env, audioCtx, activeVoices, nodes, master, now,
                            ramp, outside>>

\* keyup: stop the note of the key in the current layout.
KeyUp(k) ==
    LET noteIdx == findIndex(k)
    IN  IF noteIdx # "" THEN stop("keyup", noteIdx)
        ELSE /\ last' = Handled("keyup", "", <<>>, FALSE)
             /\ UNCHANGED <<env, audioCtx, activeVoices, nodes, master, now,
                            ramp, outside>>

\* The change handler of the layout select: the key hints follow
\* currentLayout, and every key of the voice table is stopped.
LayoutChange(layout) ==
    LET r == stopEach(objectKeys, sweepStart)
    IN  /\ page' = [page EXCEPT !.currentLayout = layout, !.active = r.active]
        /\ activeVoices' = r.activeVoices
        /\ nodes' = r.nodes
        /\ last' = Handled("layout", "", r.instrs, r.raised)
        /\ UNCHANGED <<env, audioCtx, master, now, ramp, cutoffVal, gauss,
                       recorder, midi>>

----------------------------------------------------------------------------
(* MIDI: access, the input select, and the message handler.                *)

\* The MIDI inputs the model plugs in: one with a name and a manufacturer,
\* one with neither.
MidiDevices == {"dev-1", "dev-2"}
deviceName(id) == IF id = "dev-1" THEN "Virtual Bus" ELSE ""
deviceManufacturer(id) == IF id = "dev-1" THEN "LoopMIDI" ELSE ""

\* How many requestMIDIAccess() calls await their answer.
MaxPending == 2

\* The elements of a sequence.
Range(seq) == {seq[i] : i \in 1..Len(seq)}

\* A sequence without the element x.
Without(seq, x) == SelectSeq(seq, LAMBDA y : y # x)

\* 440 * Math.pow(2, (noteNumber - 69) / 12), in 1/100 Hz: a semitone is
\* 100 cents.
midiNoteToFrequency(noteNumber) ==
    MulPow2Cents(440 * HzScale, (noteNumber - 69) * 100)

\* A voice id without the channel.
buildMidiVoiceIdNoChannel(channel, noteNumber) ==
    "midi:" \o ToString(noteNumber)

\* `midi:${channel}:${noteNumber}`
buildMidiVoiceId(channel, noteNumber) ==
    "midi:" \o ToString(channel) \o ":" \o ToString(noteNumber)

\* Array.from(midiAccess.inputs.values()), as ids in the order of the map.
getMidiInputs(m) == IF ~m.midiAccess THEN <<>> ELSE m.ports

\* getMidiInputById(id): "" stands for null.
getMidiInputById(m, id) ==
    IF id = "" THEN ""
    ELSE IF id \in Range(getMidiInputs(m)) THEN id
    ELSE ""

\* A detach that leaves the handler on the input.
detachKeepsHandler(m) == [m EXCEPT !.selectedMidiInput = ""]

\* detachSelectedMidiInputListener()
detachSelectedMidiInputListener(m) ==
    IF m.selectedMidiInput = "" THEN m
    ELSE [m EXCEPT !.handlers = @ \ {m.selectedMidiInput},
                   !.selectedMidiInput = ""]

\* The status text of a connected input, in pieces:
\* `Connected: ${selectedMidiInput.name || 'Unknown MIDI device'}`
connectedStatus(input) ==
    <<"Connected: ",
      IF deviceName(input) = "" THEN "Unknown MIDI device"
      ELSE deviceName(input)>>

\* attachSelectedMidiInputListener()
attachSelectedMidiInputListener(m) ==
    LET d == detachSelectedMidiInputListener(m)
        input == getMidiInputById(d, d.selectedMidiInputId)
    IN  IF d.selectedMidiInputId = ""
        THEN [d EXCEPT !.status = <<"No MIDI input selected">>]
        ELSE IF input = ""
        THEN [d EXCEPT !.selectedMidiInputId = "",
                       !.status = <<"Selected device disconnected">>]
        ELSE [d EXCEPT !.selectedMidiInput = input,
                       !.handlers = @ \cup {input},
                       !.status = connectedStatus(input)]

\* The text of an input's option, in pieces:
\* input.name || 'Unnamed MIDI input'
optionLabel(input) ==
    <<IF deviceName(input) = "" THEN "Unnamed MIDI input"
      ELSE deviceName(input)>>

\* A stopAllMidiNotes that clears the map and stops nothing.
stopAllMidiNotesClearsOnly(w) ==
    [midi |-> [w.midi EXCEPT !.midiActiveNotes = <<>>], st |-> w.st]

\* stopAllMidiNotes(): every active MIDI note is stopped, in the order of
\* the map, and the map cleared.  w is [midi, st], st the synth and the
\* key elements.
stopAllMidiNotes(w) ==
    [midi |-> [w.midi EXCEPT !.midiActiveNotes = <<>>],
     st |-> stopEach(w.midi.midiActiveNotes, w.st)]

\* populateMidiInputOptions()
populateMidiInputOptions(w) ==
    LET inputs == getMidiInputs(w.midi)
        hasInputs == inputs # <<>>
        gone == /\ w.midi.selectedMidiInputId # ""
                /\ w.midi.selectedMidiInputId \notin Range(inputs)
        w1 == IF gone
              THEN LET s == stopAllMidiNotes(
                                [w EXCEPT !.midi.selectedMidiInputId = ""])
                   IN  [s EXCEPT !.midi = detachSelectedMidiInputListener(@)]
              ELSE w
        options ==
            <<[value |-> "",
               label |-> <<IF hasInputs THEN "Select MIDI input"
                           ELSE "No MIDI inputs">>]>>
            \o [i \in 1..Len(inputs) |->
                   [value |-> inputs[i], label |-> optionLabel(inputs[i])]]
        selected == IF w1.midi.selectedMidiInputId = "" /\ hasInputs
                    THEN inputs[1]
                    ELSE w1.midi.selectedMidiInputId
        m2 == [w1.midi EXCEPT !.options = options,
                              !.selectedMidiInputId = selected,
                              !.selectDisabled = ~hasInputs,
                              !.selectValue = selected]
    IN  [midi |-> IF ~hasInputs
                  THEN [detachSelectedMidiInputListener(m2) EXCEPT
                            !.status = <<"No MIDI inputs found">>]
                  ELSE attachSelectedMidiInputListener(m2),
         st |-> w1.st]

\* The state a handler of the MIDI controls leaves: w is [midi, st].
midiHandled(op, w) ==
    /\ midi' = w.midi
    /\ activeVoices' = w.st.activeVoices
    /\ nodes' = w.st.nodes
    /\ page' = [page EXCEPT !.active = w.st.active]
    /\ last' = Handled(op, "", w.st.instrs, w.st.raised)

\* A click on Enable MIDI, in a browser with Web MIDI: the options are
\* built again when access is there, else access is requested.
EnableClick ==
    /\ ~midi.enableDisabled
    /\ IF midi.midiAccess
       THEN /\ midiHandled("midiEnable",
                    populateMidiInputOptions([midi |-> midi, st |-> sweepStart]))
            /\ UNCHANGED <<audioCtx, master>>
       ELSE /\ midi.pending < MaxPending
            /\ midi' = [midi EXCEPT !.pending = @ + 1]
            /\ last' = Handled("midiEnable", "", <<>>, FALSE)
            /\ UNCHANGED <<audioCtx, master, activeVoices, nodes, page>>
    /\ UNCHANGED <<env, now, ramp, cutoffVal, gauss, recorder>>

\* requestMIDIAccess() resolves: enableMidi goes on after its await, with
\* synth.init(), the statechange listener, the buttons and the options.
AccessGranted ==
    LET i == initOutcome
        w == populateMidiInputOptions(
                 [midi |-> [midi EXCEPT !.pending = @ - 1,
                                        !.midiAccess = TRUE,
                                        !.enableDisabled = TRUE,
                                        !.refreshDisabled = FALSE],
                  st |-> sweepStart])
    IN  /\ midi.pending > 0
        /\ audioCtx' = TRUE
        /\ master' = i.master
        /\ midi' = w.midi
        /\ activeVoices' = w.st.activeVoices
        /\ nodes' = w.st.nodes
        /\ page' = [page EXCEPT !.active = w.st.active]
        /\ last' = Handled("midiAccess", "", i.instrs \o w.st.instrs, w.st.raised)
        /\ UNCHANGED <<env, now, ramp, cutoffVal, gauss, recorder>>

\* requestMIDIAccess() rejects.
AccessDenied ==
    /\ midi.pending > 0
    /\ midi' = [midi EXCEPT !.pending = @ - 1,
                            !.status = <<"MIDI access denied">>]
    /\ last' = Handled("midiDenied", "", <<>>, FALSE)
    /\ UNCHANGED <<env, audioCtx, activeVoices, nodes, master, now, ramp,
                   cutoffVal, gauss, page, recorder>>

\* A device is plugged in or pulled out; when access is there, its input
\* map follows and the statechange listener builds the options again.
PortsChange(ports) ==
    /\ ports # midi.ports
    /\ IF midi.midiAccess
       THEN midiHandled("statechange",
                populateMidiInputOptions(
                    [midi |-> [midi EXCEPT !.ports = ports], st |-> sweepStart]))
       ELSE /\ midi' = [midi EXCEPT !.ports = ports]
            /\ last' = NoCall
            /\ UNCHANGED <<activeVoices, nodes, page>>
    /\ UNCHANGED <<env, audioCtx, master, now, ramp, cutoffVal, gauss, recorder>>

Plug(dev) ==
    /\ dev \notin Range(midi.ports)
    /\ PortsChange(Append(midi.ports, dev))

Unplug(dev) ==
    /\ dev \in Range(midi.ports)
    /\ PortsChange(Without(midi.ports, dev))

\* The change handler of the input select: an option is chosen.
SelectChange(value) ==
    /\ ~midi.selectDisabled
    /\ value \in {midi.options[i].value : i \in 1..Len(midi.options)}
    /\ LET s == stopAllMidiNotes(
                    [midi |-> [midi EXCEPT !.selectValue = value],
                     st |-> sweepStart])
       IN  midiHandled("midiSelect",
                [s EXCEPT !.midi = attachSelectedMidiInputListener(
                                       [@ EXCEPT !.selectedMidiInputId = value])])
    /\ UNCHANGED <<env, audioCtx, master, now, ramp, cutoffVal, gauss, recorder>>

\* A click on Refresh.
RefreshClick ==
    /\ ~midi.refreshDisabled
    /\ midiHandled("midiRefresh",
            populateMidiInputOptions([midi |-> midi, st |-> sweepStart]))
    /\ UNCHANGED <<env, audioCtx, master, now, ramp, cutoffVal, gauss, recorder>>

\* The messages the inputs send: note-on and note-off of one note on two
\* channels, a note-on of velocity 0 and one without a velocity byte, a
\* second note, a control change, and a message of one byte.
MidiMessages ==
    {<<144, 69, 100>>, <<128, 69, 0>>, <<144, 69, 0>>, <<145, 69, 100>>,
     <<129, 69, 64>>, <<144, 69>>, <<144, 81, 127>>, <<128, 81, 0>>,
     <<176, 69, 100>>, <<144>>}

\* A handler without the test of the status: every message of two bytes or
\* more is taken for a note-on or a note-off.
MidiMessageAnyStatus(dev, data, src) ==
    LET status == data[1]
        noteNumber == data[2]
        velocity == IF Len(data) > 2 THEN data[3] ELSE 0
        messageType == (status \div 16) * 16
        channel == status % 16
        voiceId == buildMidiVoiceId(channel, noteNumber)
        isNoteOff == messageType = 128 \/ velocity = 0
        ignored ==
            /\ last' = Handled("midimessage", "", <<>>, FALSE)
            /\ UNCHANGED <<audioCtx, master, activeVoices, nodes, page, midi>>
    IN  /\ dev \in midi.handlers
        /\ IF Len(data) < 2 THEN ignored
           ELSE IF isNoteOff
           THEN IF voiceId \notin Range(midi.midiActiveNotes) THEN ignored
                ELSE LET r == stopNoteOutcome(activeVoices, nodes, voiceId)
                     IN  /\ activeVoices' = r.activeVoices
                         /\ nodes' = r.nodes
                         /\ page' = [page EXCEPT !.active =
                                        setKeyActive(@, voiceId, FALSE)]
                         /\ midi' = [midi EXCEPT !.midiActiveNotes =
                                        Without(@, voiceId)]
                         /\ last' = Handled("midimessage", voiceId, r.instrs,
                                            r.raised)
                         /\ UNCHANGED <<audioCtx, master>>
           ELSE IF voiceId \in Range(midi.midiActiveNotes) THEN ignored
           ELSE \E r \in {playNoteOutcome(TRUE, midiNoteToFrequency(noteNumber),
                                          voiceId, getSettings, src)} :
                    /\ r.started => Len(nodes) < 3 * MaxVoices
                    /\ audioCtx' = TRUE
                    /\ master' = initOutcome.master
                    /\ activeVoices' = r.activeVoices
                    /\ nodes' = r.nodes
                    /\ page' = [page EXCEPT !.active =
                                   setKeyActive(@, voiceId, TRUE)]
                    /\ midi' = [midi EXCEPT !.midiActiveNotes =
                                   Append(@, voiceId)]
                    /\ last' = [op |-> "midimessage", keyId |-> voiceId,
                                freq |-> midiNoteToFrequency(noteNumber),
                                settings |-> getSettings,
                                src |-> src, raised |-> FALSE,
                                created |-> r.created, draws |-> r.draws,
                                drift |-> r.drift,
                                instrs |-> initOutcome.instrs \o r.instrs]
        /\ UNCHANGED <<env, now, ramp, cutoffVal, gauss, recorder>>

\* handleMidiMessage(event), called by the input the handler is on, with
\* event.data = data.
MidiMessage(dev, data, src) ==
    LET status == data[1]
        noteNumber == data[2]
        velocity == IF Len(data) > 2 THEN data[3] ELSE 0
        messageType == (status \div 16) * 16
        channel == status % 16
        voiceId == buildMidiVoiceId(channel, noteNumber)
        isNoteOff == messageType = 128 \/ velocity = 0
        ignored ==
            /\ last' = Handled("midimessage", "", <<>>, FALSE)
            /\ UNCHANGED <<audioCtx, master, activeVoices, nodes, page, midi>>
    IN  /\ dev \in midi.handlers
        /\ IF Len(data) < 2 THEN ignored
           ELSE IF messageType # 128 /\ messageType # 144 THEN ignored
           ELSE IF isNoteOff
           THEN IF voiceId \notin Range(midi.midiActiveNotes) THEN ignored
                ELSE LET r == stopNoteOutcome(activeVoices, nodes, voiceId)
                     IN  /\ activeVoices' = r.activeVoices
                         /\ nodes' = r.nodes
                         /\ page' = [page EXCEPT !.active =
                                        setKeyActive(@, voiceId, FALSE)]
                         /\ midi' = [midi EXCEPT !.midiActiveNotes =
                                        Without(@, voiceId)]
                         /\ last' = Handled("midimessage", voiceId, r.instrs,
                                            r.raised)
                         /\ UNCHANGED <<audioCtx, master>>
           ELSE IF voiceId \in Range(midi.midiActiveNotes) THEN ignored
           ELSE \E r \in {playNoteOutcome(TRUE, midiNoteToFrequency(noteNumber),
                                          voiceId, getSettings, src)} :
                    /\ r.started => Len(nodes) < 3 * MaxVoices
                    /\ audioCtx' = TRUE
                    /\ master' = initOutcome.master
                    /\ activeVoices' = r.activeVoices
                    /\ nodes' = r.nodes
                    /\ page' = [page EXCEPT !.active =
                                   setKeyActive(@, voiceId, TRUE)]
                    /\ midi' = [midi EXCEPT !.midiActiveNotes =
                                   Append(@, voiceId)]
                    /\ last' = [op |-> "midimessage", keyId |-> voiceId,
                                freq |-> midiNoteToFrequency(noteNumber),
                                settings |-> getSettings,
                                src |-> src, raised |-> FALSE,
                                created |-> r.created, draws |-> r.draws,
                                drift |-> r.drift,
                                instrs |-> initOutcome.instrs \o r.instrs]
        /\ UNCHANGED <<env, now, ramp, cutoffVal, gauss, recorder>>

----------------------------------------------------------------------------
(* The controls: the sliders, the waveform select and the drift mode.      *)

\* The input handler of the variance slider, moved to v.
VarianceInput(v) ==
    /\ page' = [page EXCEPT !.variance = v, !.varianceVal = v]
    /\ last' = Handled("variance", "", <<>>, FALSE)
    /\ UNCHANGED <<env, audioCtx, activeVoices, nodes, master, now, ramp,
                   cutoffVal, gauss, recorder, midi>>

\* The waveform select has no handler: its value is read when a note is
\* played.
WaveformChange(w) ==
    /\ page' = [page EXCEPT !.waveform = w]
    /\ last' = Handled("waveform", "", <<>>, FALSE)
    /\ UNCHANGED <<env, audioCtx, activeVoices, nodes, master, now, ramp,
                   cutoffVal, gauss, recorder, midi>>

\* The input handler of the drift direction slider, moved to v.
DriftDirectionInput(v) ==
    /\ page' = [page EXCEPT !.driftDirection = v, !.driftDirectionVal = v]
    /\ last' = Handled("driftDirection", "", <<>>, FALSE)
    /\ UNCHANGED <<env, audioCtx, activeVoices, nodes, master, now, ramp,
                   cutoffVal, gauss, recorder, midi>>

\* An enforcement that copies nothing.
enforceNothing(pg, changed) == pg

\* The input handlers of the two drift sliders and enforceUniformMinMax
\* call one another: the handler shows the value and, in Uniform mode,
\* enforces min <= max; the enforcement copies the changed slider's value
\* to the other and dispatches that slider's input event.
RECURSIVE enforceUniformMinMax(_, _), driftMeanInput(_), driftSpreadInput(_)

enforceUniformMinMax(pg, changed) ==
    LET minVal == parseFloat(pg.driftMean)
        maxVal == parseFloat(pg.driftSpread)
    IN  IF minVal # NaN /\ maxVal # NaN /\ minVal <= maxVal THEN pg
        ELSE IF changed = "mean"
        THEN driftSpreadInput([pg EXCEPT !.driftSpread = pg.driftMean])
        ELSE driftMeanInput([pg EXCEPT !.driftMean = pg.driftSpread])

driftMeanInput(pg) ==
    LET shown == [pg EXCEPT !.driftMeanVal = pg.driftMean]
    IN  IF pg.driftMode THEN enforceUniformMinMax(shown, "mean") ELSE shown

driftSpreadInput(pg) ==
    LET shown == [pg EXCEPT !.driftSpreadVal = pg.driftSpread]
    IN  IF pg.driftMode THEN enforceUniformMinMax(shown, "spread") ELSE shown

\* What a handler of the drift controls leaves.
driftHandled(op, pg) ==
    /\ page' = pg
    /\ last' = Handled(op, "", <<>>, FALSE)
    /\ UNCHANGED <<env, audioCtx, activeVoices, nodes, master, now, ramp,
                   cutoffVal, gauss, recorder, midi>>

\* The mean (minimum) slider is moved to v.
DriftMeanSlide(v) ==
    driftHandled("driftMean", driftMeanInput([page EXCEPT !.driftMean = v]))

\* The spread (maximum) slider is moved to v.
DriftSpreadSlide(v) ==
    driftHandled("driftSpread", driftSpreadInput([page EXCEPT !.driftSpread = v]))

\* The step, min and max of a range input that names none.
stepDefault == 1
minDefault == 0
maxDefault == 100

\* nudgeRangeInput(inputEl, direction, event): the value after a click on
\* a stepper; the multiplier is 10 with the shift key.
nudged(current, direction, shiftKey) ==
    LET multiplier == IF shiftKey THEN 10 ELSE 1
        next == current + direction * stepDefault * multiplier
    IN  Min2(maxDefault, Max2(minDefault, next))

\* The highest value the steppers take a drift slider to.
MaxNudged == 20

\* A click on a stepper of the mean or of the spread slider.
StepperClick(target, direction, shiftKey) ==
    LET current == IF target = "driftMean" THEN page.driftMean
                   ELSE page.driftSpread
        value == nudged(current, direction, shiftKey)
    IN  /\ value <= MaxNudged
        /\ IF target = "driftMean"
           THEN driftHandled("stepper",
                    driftMeanInput([page EXCEPT !.driftMean = value]))
           ELSE driftHandled("stepper",
                    driftSpreadInput([page EXCEPT !.driftSpread = value]))

\* readDriftValues()
readDriftValues(pg) == [mean |-> pg.driftMean, spread |-> pg.driftSpread]

\* setDriftValues(values): each slider is set and its input event
\* dispatched, the mean first.
setDriftValues(pg, values) ==
    LET meanSet == driftMeanInput([pg EXCEPT !.driftMean = values.mean])
    IN  driftSpreadInput([meanSet EXCEPT !.driftSpread = values.spread])

\* The change handler of the drift mode toggle, the toggle already at its
\* new state: the mode it does not show is taken for the mode left.
driftModeChange(pg) ==
    LET fromMode == IF pg.driftMode THEN "gaussian" ELSE "uniform"
        toMode == IF pg.driftMode THEN "uniform" ELSE "gaussian"
        saved == [pg EXCEPT !.driftDefaults[fromMode] = readDriftValues(pg)]
        restored == setDriftValues(saved, saved.driftDefaults[toMode])
        labelled == [restored EXCEPT !.driftLabels = toMode]
    IN  IF labelled.driftMode THEN enforceUniformMinMax(labelled, "mean")
        ELSE labelled

\* A click on the toggle: it flips, and its change event is handled.
DriftModeToggle ==
    driftHandled("driftMode",
        driftModeChange([page EXCEPT !.driftMode = ~page.driftMode]))

\* A click on the Gaussian label: the toggle is unchecked and its change
\* event dispatched.
GaussianLabelClick ==
    driftHandled("driftModeLabel",
        driftModeChange([page EXCEPT !.driftMode = FALSE]))

\* A click on the Uniform label: the toggle is checked and its change
\* event dispatched.
UniformLabelClick ==
    driftHandled("driftModeLabel",
        driftModeChange([page EXCEPT !.driftMode = TRUE]))

----------------------------------------------------------------------------
(* Recording: the Start and Stop buttons and the WAV download.             *)

\* Node ids of the recorder chain.
RecorderNode == 0 - 4
RecorderSilentGainNode == 0 - 5

\* How many recordings are downloaded, and how many buffers one holds.
MaxDownloads == 2
MaxRecorded == 2

\* startRecording: const channelCount = 2
channelCount == 2

\* A setRecordingUI that leaves the Stop button as it is.
setRecordingUIStartOnly(r, recording) ==
    [r EXCEPT !.startDisabled = recording]

\* setRecordingUI(recording)
setRecordingUI(r, recording) ==
    [r EXCEPT !.startDisabled = recording, !.stopDisabled = ~recording]

\* startRecording(): nothing while recording; else synth.init(), the
\* script processor and the silent gain, and the master gain connected to
\* the recorder.
StartRecording ==
    IF recorder.isRecording
    THEN /\ last' = Handled("recordStart", "", <<>>, FALSE)
         /\ UNCHANGED <<env, audioCtx, activeVoices, nodes, master, now, ramp,
                        outside>>
    ELSE LET i == initOutcome
         IN  /\ audioCtx' = TRUE
             /\ master' = i.master
             /\ recorder' =
                    setRecordingUI(
                        [recorder EXCEPT !.recorderNode = TRUE,
                                         !.recorderSilentGain = TRUE,
                                         !.recordedLength = 0,
                                         !.recordedBuffers =
                                             [ch \in 1..channelCount |-> <<>>],
                                         !.recorderInputConnected = TRUE,
                                         !.isRecording = TRUE],
                        TRUE)
             /\ last' = Handled("recordStart", "",
                    i.instrs
                    \o <<Instr(RecorderSilentGainNode, "gain", "assign", 0,
                               RatInt(now)),
                         Instr(MasterGainNode, "node", "connect", RecorderNode,
                               RatInt(now)),
                         Instr(RecorderNode, "node", "connect",
                               RecorderSilentGainNode, RatInt(now)),
                         Instr(RecorderSilentGainNode, "node", "connect",
                               DestinationNode, RatInt(now))>>,
                    FALSE)
             /\ UNCHANGED <<env, activeVoices, nodes, now, ramp, cutoffVal,
                            gauss, page, midi>>

\* The input buffers the script processor delivers: two channels of
\* samples in 1/10000, one buffer with samples beyond -1 and 1.
InputBuffers ==
    {<<<<5000>>, <<0 - 5000>>>>,
     <<<<0 - 20000, 1>>, <<10000, 20000>>>>}

\* recorderNode.onaudioprocess(event), event.inputBuffer being input: a
\* copy of each channel's data is pushed and the length counted.
AudioProcess(input) ==
    LET channels == Min2(channelCount, Len(input))
    IN  /\ recorder.recorderNode
        /\ Len(recorder.recordedBuffers[1]) < MaxRecorded
        /\ recorder' =
              [recorder EXCEPT
                  !.recordedBuffers =
                      [ch \in 1..Len(@) |->
                          IF ch <= channels THEN Append(@[ch], input[ch])
                          ELSE @[ch]],
                  !.recordedLength = @ + Len(input[1])]
        /\ last' = NoCall
        /\ UNCHANGED <<env, audioCtx, activeVoices, nodes, master, now, ramp,
                       cutoffVal, gauss, page, midi>>

\* Buffers merged with the last one first.
mergeBuffersLastFirst(buffers, totalLength) ==
    LET RECURSIVE back(_)
        back(bs) == IF bs = <<>> THEN <<>> ELSE back(Tail(bs)) \o Head(bs)
        flat == back(buffers)
    IN  [raised |-> Len(flat) > totalLength,
         data |-> flat \o [i \in 1..(totalLength - Len(flat)) |-> 0]]

\* mergeBuffers(buffers, totalLength): a Float32Array of totalLength
\* zeros with each buffer set after the one before; result.set throws a
\* RangeError when a buffer does not fit.
mergeBuffers(buffers, totalLength) ==
    LET RECURSIVE concat(_)
        concat(bs) == IF bs = <<>> THEN <<>> ELSE Head(bs) \o concat(Tail(bs))
        flat == concat(buffers)
    IN  [raised |-> Len(flat) > totalLength,
         data |-> flat \o [i \in 1..(totalLength - Len(flat)) |-> 0]]

\* interleave(left, right): left[i] and right[i] in turn for each index
\* of left; a right[i] that is not there is stored as NaN.
interleave(left, right) ==
    [k \in 1..(Len(left) + Len(right)) |->
        IF k > 2 * Len(left) THEN 0
        ELSE IF k % 2 = 1 THEN left[(k + 1) \div 2]
        ELSE IF k \div 2 <= Len(right) THEN right[k \div 2]
        ELSE NaN]

\* floatTo16BitPCM: each sample clamped to [-1, 1], times 0x8000 below 0
\* and times 0x7FFF else, written by setInt16, which drops the fraction
\* and writes 0 for NaN.
floatTo16BitPCM(input) ==
    [i \in 1..Len(input) |->
        IF input[i] = NaN THEN 0
        ELSE LET s == Max2(0 - GainScale, Min2(GainScale, input[i]))
             IN  IF s < 0 THEN 0 - (((0 - s) * 32768) \div GainScale)
                 ELSE (s * 32767) \div GainScale]

\* encodeWav(buffers, sampleRate, numChannels): the fields of the header
\* that depend on the arguments, and the samples.
encodeWav(buffers, sampleRate, numChannels) ==
    [numChannels |-> numChannels, sampleRate |-> sampleRate,
     blockAlign |-> numChannels * 2, dataLength |-> Len(buffers) * 2,
     samples |-> floatTo16BitPCM(buffers)]

\* A download that leaves the previous URL to its timer.
downloadBlobLeavesPrevious(r, blob) ==
    LET url == Len(r.downloaded) + 1
    IN  [r EXCEPT !.lastRecordingUrl = url,
                  !.downloaded = Append(@, blob),
                  !.timers = @ \cup {url},
                  !.revoked = Append(@, 0)]

\* downloadBlob(blob, filename): the last object URL is revoked, a new one
\* made and clicked, and a timer set to revoke it.  URLs are numbered.
downloadBlob(r, blob) ==
    LET url == Len(r.downloaded) + 1
        previous == r.lastRecordingUrl
        revoked == IF previous # 0 THEN [r.revoked EXCEPT ![previous] = @ + 1]
                   ELSE r.revoked
    IN  [r EXCEPT !.lastRecordingUrl = url,
                  !.downloaded = Append(@, blob),
                  !.timers = @ \cup {url},
                  !.revoked = Append(revoked, 0)]

\* stopRecording(): nothing while not recording; else the recorder is
\* disconnected and dropped, and the WAV of what was recorded downloaded.
StopRecording ==
    IF ~recorder.isRecording
    THEN /\ last' = Handled("recordStop", "", <<>>, FALSE)
         /\ UNCHANGED <<env, audioCtx, activeVoices, nodes, master, now, ramp,
                        outside>>
    ELSE LET ui == setRecordingUI([recorder EXCEPT !.isRecording = FALSE], FALSE)
             disconnectInput ==
                 /\ ui.recorderInputConnected
                 /\ master.masterGain
                 /\ ui.recorderNode
             dropped ==
                 [ui EXCEPT !.recorderInputConnected =
                                IF disconnectInput THEN FALSE ELSE @,
                            !.recorderNode = FALSE,
                            !.recorderSilentGain = FALSE]
             sampleRate == IF audioCtx THEN env.sampleRate ELSE defaultSampleRate
             hasSecondChannel ==
                 /\ Len(recorder.recordedBuffers) > 1
                 /\ Len(recorder.recordedBuffers[2]) > 0
             merged ==
                 [ch \in 1..Len(recorder.recordedBuffers) |->
                     mergeBuffers(recorder.recordedBuffers[ch],
                                  recorder.recordedLength)]
             mergeRaised == \E ch \in 1..Len(merged) : merged[ch].raised
             output == IF hasSecondChannel
                       THEN interleave(merged[1].data, merged[2].data)
                       ELSE merged[1].data
             wavBlob == encodeWav(output, sampleRate,
                                  IF hasSecondChannel THEN 2 ELSE 1)
         IN  /\ Len(recorder.downloaded) < MaxDownloads
             /\ recorder' =
                    IF mergeRaised THEN dropped
                    ELSE [downloadBlob(dropped, wavBlob) EXCEPT
                             !.recordedBuffers = <<>>,
                             !.recordedLength = 0]
             /\ last' = Handled("recordStop", "",
                    (IF disconnectInput
                     THEN <<Instr(MasterGainNode, "node", "disconnect",
                                  RecorderNode, RatInt(now))>>
                     ELSE <<>>)
                    \o (IF ui.recorderNode
                        THEN <<Instr(RecorderNode, "node", "disconnect", 0,
                                     RatInt(now))>>
                        ELSE <<>>)
                    \o (IF ui.recorderSilentGain
                        THEN <<Instr(RecorderSilentGainNode, "node",
                                     "disconnect", 0, RatInt(now))>>
                        ELSE <<>>),
                    mergeRaised)
             /\ UNCHANGED <<env, audioCtx, activeVoices, nodes, master, now,
                            ramp, cutoffVal, gauss, page, midi>>

\* The timer of downloadBlob, a second later: the URL is revoked if it is
\* still the last one.
RevokeTimer(url) ==
    /\ url \in recorder.timers
    /\ recorder' = [recorder EXCEPT
                       !.timers = @ \ {url},
                       !.revoked[url] =
                           IF recorder.lastRecordingUrl = url THEN @ + 1 ELSE @,
                       !.lastRecordingUrl = IF @ = url THEN 0 ELSE @]
    /\ last' = NoCall
    /\ UNCHANGED <<env, audioCtx, activeVoices, nodes, master, now, ramp,
                   cutoffVal, gauss, page, midi>>

----------------------------------------------------------------------------
(* The keyboard with its layouts and a MIDI input: keys held by pointer,   *)
(* by the keyboard and by MIDI, and the layout changed under them ("y" is  *)
(* G#4 in the US layout and the octave-down shortcut in the German one).   *)

Layouts == {"US", "DE"}
LayoutKeys == {"a", "y"}
LayoutMessages == {<<144, 69, 100>>, <<128, 69, 0>>}

NextLayout ==
    \/ StartAudio
    \/ \E src \in RandomSources : PointerDown("8", src)
    \/ PointerUp("8")
    \/ \E k \in LayoutKeys, src \in RandomSources : KeyDown(k, src)
    \/ \E k \in LayoutKeys : KeyUp(k)
    \/ Plug("dev-1")
    \/ EnableClick
    \/ AccessGranted
    \/ \E data \in LayoutMessages, src \in RandomSources :
          MidiMessage("dev-1", data, src)
    \/ \E layout \in Layouts : LayoutChange(layout)

SpecLayout == InitCutoff /\ [][NextLayout]_vars

----------------------------------------------------------------------------
(* The MIDI controls, two devices that come and go, and their messages,    *)
(* with the octave buttons and the layout select beside them.              *)

NextMidi ==
    \/ EnableClick
    \/ AccessGranted
    \/ AccessDenied
    \/ \E dev \in MidiDevices : Plug(dev)
    \/ \E dev \in MidiDevices : Unplug(dev)
    \/ \E value \in MidiDevices \cup {""} : SelectChange(value)
    \/ RefreshClick
    \/ \E dev \in MidiDevices, data \in MidiMessages, src \in RandomSources :
          MidiMessage(dev, data, src)
    \/ OctaveUp
    \/ OctaveDown
    \/ \E layout \in {"DE"} : LayoutChange(layout)

SpecMidi == InitCutoff /\ [][NextMidi]_vars

----------------------------------------------------------------------------
(* A key played and released while the controls are changed.               *)

ControlKeys == {"a", "x", "z"}

NextControls ==
    \/ StartAudio
    \/ \E k \in ControlKeys, src \in RandomSources : KeyDown(k, src)
    \/ KeyUp("a")
    \/ OctaveUp
    \/ OctaveDown
    \/ VarianceInput(50)
    \/ WaveformChange("square")
    \/ DriftDirectionInput(100)
    \/ DriftMeanSlide(10)
    \/ DriftSpreadSlide(10)
    \/ DriftModeToggle

SpecControls == InitCutoff /\ [][NextControls]_vars

----------------------------------------------------------------------------
(* The drift sliders, their steppers, the mode toggle and its labels.      *)

DriftSliderValues == {0, 10, 20}

NextDriftUI ==
    \/ \E v \in DriftSliderValues : DriftMeanSlide(v)
    \/ \E v \in DriftSliderValues : DriftSpreadSlide(v)
    \/ \E target \in {"driftMean", "driftSpread"}, direction \in {0 - 1, 1} :
          StepperClick(target, direction, TRUE)
    \/ DriftModeToggle
    \/ GaussianLabelClick
    \/ UniformLabelClick

SpecDriftUI == InitCutoff /\ [][NextDriftUI]_vars

----------------------------------------------------------------------------
(* Recording while a key is played.                                        *)

NextRecording ==
    \/ StartRecording
    \/ StopRecording
    \/ AudioProcess(<<<<5000>>, <<0 - 5000>>>>)
    \/ \E url \in 1..MaxDownloads : RevokeTimer(url)
    \/ StartAudio
    \/ \E src \in RandomSources : PointerDown("0", src)
    \/ PointerUp("0")
    \/ Tick

SpecRecording == InitCutoff /\ [][NextRecording]_vars

----------------------------------------------------------------------------
(* Properties of the voice table.                                          *)

\* The oscillators that were started and have no stop scheduled.
SoundingOscillators ==
    {i \in 1..Len(nodes) : nodes[i].kind = "oscillator" /\ nodes[i].stopAt < 0}

VoiceOscillators == {activeVoices[k].osc : k \in DOMAIN activeVoices}

\* The step is a playNote(keyId) call, made with a voice recorded for keyId.
PlayNoteOnSoundingKey ==
    /\ last'.op = "playNote"
    /\ last' # last
    /\ last'.keyId \in DOMAIN activeVoices

\* C1: the table holds one voice per key, each with an oscillator of its
\* own and every sounding oscillator belonging to exactly one key; and a
\* playNote for a key that has a voice creates no node, makes no call on
\* any node and leaves the table as it was.
C1_MonophonicPerKey ==
    [][/\ \A k1, k2 \in DOMAIN activeVoices' :
            activeVoices'[k1].osc = activeVoices'[k2].osc => k1 = k2
       /\ Cardinality(SoundingOscillators') = Cardinality(DOMAIN activeVoices')
       /\ VoiceOscillators' = SoundingOscillators'
       /\ PlayNoteOnSoundingKey =>
            /\ activeVoices' = activeVoices
            /\ nodes' = nodes
            /\ last'.created = 0
            /\ last'.instrs = <<>>]_vars

\* A playNote was just made for a key whose voice is sounding, with
\* another voice sounding beside it.
C1_Witness ==
    /\ last.op = "playNote"
    /\ last.created = 0
    /\ last.keyId \in DOMAIN activeVoices
    /\ Cardinality(DOMAIN activeVoices) = 2

\* The step is a stopNote(keyId) call, made with no voice recorded for keyId.
StopNoteOnIdleKey ==
    /\ last'.op = "stopNote"
    /\ last' # last
    /\ last'.keyId \notin DOMAIN activeVoices

\* C2: stopNote for a key that has no voice is a no-op: it makes no call on
\* any node, leaves the table as it was and throws nothing.
C2_StopIdleKeyIsNoOp ==
    [][StopNoteOnIdleKey =>
        /\ last'.instrs = <<>>
        /\ ~last'.raised
        /\ activeVoices' = activeVoices
        /\ nodes' = nodes]_vars

\* The step is a stopNote(keyId) call, made with a voice recorded for keyId.
StopNoteOnSoundingKey ==
    /\ last'.op = "stopNote"
    /\ last' # last
    /\ last'.keyId \in DOMAIN activeVoices

\* The step is a playNote(keyId) call on an initialized engine that finds
\* nothing under keyId.
PlayNoteOnIdleKey ==
    /\ last'.op = "playNote"
    /\ last' # last
    /\ audioCtx
    /\ ~lookupVoice(last'.keyId).truthy

\* C3: stopNote removes the key's voice from the table at once; a playNote
\* for a key without a voice creates a voice of three new nodes; and no
\* voice of the table has a stop scheduled on its oscillator, whatever
\* stops are pending on the oscillators of earlier voices of the same key.
C3_StopFreesKeyAtOnce ==
    [][/\ StopNoteOnSoundingKey => last'.keyId \notin DOMAIN activeVoices'
       /\ PlayNoteOnIdleKey =>
            /\ last'.keyId \in DOMAIN activeVoices'
            /\ activeVoices'[last'.keyId].osc > Len(nodes)
            /\ activeVoices'[last'.keyId].filter > Len(nodes)
            /\ activeVoices'[last'.keyId].gainNode > Len(nodes)
            /\ \A k \in DOMAIN activeVoices : activeVoices'[k] = activeVoices[k]
       /\ \A k \in DOMAIN activeVoices' :
            nodes'[activeVoices'[k].osc].stopAt < 0]_vars

\* A key is sounding again while the oscillator of its previous voice still
\* awaits its scheduled stop.
C3_Witness ==
    /\ last.op = "playNote"
    /\ last.created = 3
    /\ \E i \in 1..Len(nodes) :
        /\ nodes[i].kind = "oscillator"
        /\ nodes[i].key = last.keyId
        /\ nodes[i].stopAt > now
        /\ i < activeVoices[last.keyId].osc

----------------------------------------------------------------------------
(* The detune curve a ramp describes.  An AudioParam holds the value of    *)
(* its latest event up to the next one; a linearRampToValueAtTime event is *)
(* reached by a straight line from the event before it.  The curve is      *)
(* sampled at SampleDiv + 1 evenly spaced times of every segment between   *)
(* two successive events.                                                  *)

SampleDiv == 4

\* The events of the detune parameter of the ramp's oscillator: detune is 0
\* at the time of the call, then the calls of scheduleDetuneRamp.
RampEvents ==
    <<Instr(1, "detune", "setValueAtTime", 0, RatInt(now))>> \o ramp.out

\* The value j/SampleDiv of the way from event i to event i + 1.
SampleValue(ev, i, j) ==
    IF RatEq(ev[i].at, ev[i + 1].at) THEN RatInt(ev[i + 1].value)
    ELSE IF ev[i + 1].op = "linearRampToValueAtTime"
    THEN [n |-> SampleDiv * ev[i].value + (ev[i + 1].value - ev[i].value) * j,
          d |-> SampleDiv]
    ELSE IF j = SampleDiv THEN RatInt(ev[i + 1].value)
    ELSE RatInt(ev[i].value)

\* The time from event i to event i + 1, in 1/100 s.
SegmentLength(ev, i) ==
    [n |-> ev[i + 1].at.n * ev[i].at.d - ev[i].at.n * ev[i + 1].at.d,
     d |-> ev[i + 1].at.d * ev[i].at.d]

\* The limits of the last call, computed from its arguments.
RampMinDetune ==
    Log2Cents(getFrequencyBounds.min, clampFrequency(ramp.startFreq))
RampMaxDetune ==
    Log2Cents(getFrequencyBounds.max, clampFrequency(ramp.startFreq))
RampTarget == ramp.driftRate * ramp.duration
RampLimit == IF ramp.driftRate > 0 THEN RampMaxDetune ELSE RampMinDetune

\* The call is one the safeguard clamps: the target lies outside the
\* limits, and the limit is reached after the start and before the end.
RampClamped ==
    /\ ramp.called
    /\ ramp.useSafeguard
    /\ ramp.driftRate # 0
    /\ ~(RampMinDetune <= RampTarget /\ RampTarget <= RampMaxDetune)
    /\ RampLimit * ramp.driftRate > 0
    /\ (IF ramp.driftRate > 0 THEN RampLimit < RampTarget
                              ELSE RampLimit > RampTarget)

SameInstr(a, b) ==
    /\ a.node = b.node /\ a.param = b.param /\ a.op = b.op
    /\ a.value = b.value /\ RatEq(a.at, b.at)

SameInstrs(s, t) ==
    /\ Len(s) = Len(t)
    /\ \A i \in 1..Len(s) : SameInstr(s[i], t[i])

\* C5: the calls are one of three sequences.  A single ramp to
\* rate * duration at the end when the safeguard is off, the rate is 0, a
\* limit is not finite, the target lies within the limits or the limit
\* would be reached at or after the end; else the limit set at the start and at the end when the time to
\* the limit is not positive; else a ramp to the limit at the time the rate
\* reaches it, and the limit set at the end.
C5_RampSequences ==
    ramp.called =>
        LET atEnd == [n |-> now + TimeScale * ramp.duration, d |-> 1]
            \* timeToLimit = limit / rate, compared by cross-multiplication
            \* (d is the rate's absolute value, n the limit with its sign).
            n == IF ramp.driftRate < 0 THEN 0 - RampLimit ELSE RampLimit
            d == IF ramp.driftRate < 0 THEN 0 - ramp.driftRate ELSE ramp.driftRate
            atLimit == [n |-> now * d + TimeScale * n, d |-> d]
            unclamped ==
                <<Instr(1, "detune", "linearRampToValueAtTime", RampTarget, atEnd)>>
        IN  IF \/ ~ramp.useSafeguard
               \/ ramp.driftRate = 0
               \/ ~IsFinite(RampMinDetune) \/ ~IsFinite(RampMaxDetune)
               \/ (RampMinDetune <= RampTarget /\ RampTarget <= RampMaxDetune)
               \/ n >= ramp.duration * d
            THEN SameInstrs(ramp.out, unclamped)
            ELSE IF n <= 0
            THEN SameInstrs(ramp.out,
                    <<Instr(1, "detune", "setValueAtTime", RampLimit, RatInt(now)),
                      Instr(1, "detune", "setValueAtTime", RampLimit, atEnd)>>)
            ELSE SameInstrs(ramp.out,
                    <<Instr(1, "detune", "linearRampToValueAtTime", RampLimit,
                            atLimit),
                      Instr(1, "detune", "setValueAtTime", RampLimit, atEnd)>>)

\* The immediate hold was emitted for a falling note that starts on the
\* lower bound.
C5_Witness ==
    /\ ramp.called /\ ramp.useSafeguard
    /\ ramp.driftRate < 0
    /\ RampMinDetune = 0
    /\ RampMaxDetune > 0
    /\ Len(ramp.out) = 2
    /\ ramp.out[1].op = "setValueAtTime"

\* C6: in the clamped case the curve is rate * t up to the time the limit
\* is reached (value * elapsed.d * TimeScale = rate * elapsed.n, the
\* elapsed time being j/SampleDiv of the first segment, whose SampleDiv
\* cancels against that of the value), is the limit from then to the end,
\* and is continuous where the two meet.
C6_RatePreservedThenHeld ==
    RampClamped =>
        /\ Len(RampEvents) = 3
        /\ \A j \in 0..SampleDiv :
            LET v == SampleValue(RampEvents, 1, j)
                len == SegmentLength(RampEvents, 1)
            IN  /\ len.n > 0
                /\ v.n * len.d * TimeScale = ramp.driftRate * len.n * j
        /\ \A j \in 0..SampleDiv :
            RatEq(SampleValue(RampEvents, 2, j), RatInt(RampLimit))
        /\ RatEq(SampleValue(RampEvents, 1, SampleDiv),
                 SampleValue(RampEvents, 2, 0))
        /\ RatEq(RampEvents[3].at,
                 [n |-> now + TimeScale * ramp.duration, d |-> 1])

\* A falling 24 hour ramp from 440 Hz was clamped at the lower limit.
C6_Witness ==
    /\ RampClamped
    /\ ramp.driftRate < 0
    /\ ramp.startFreq = 440 * HzScale
    /\ ramp.duration = DRIFT_DURATION_SECONDS
    /\ ramp.out[1].value = RampMinDetune
    /\ now > 0

----------------------------------------------------------------------------
(* One playNote that created a voice, and one stopNote that released one.  *)

\* The last call was a playNote that went past its early returns.
NotePlayed == last.op = "playNote" /\ last.created = 3

\* The oscillator of the voice the last playNote created.
PlayedOsc == activeVoices[last.keyId].osc

\* The calls of the last playNote on the detune of its oscillator.
DetuneInstrs ==
    SelectSeq(last.instrs,
              LAMBDA c : c.node = PlayedOsc /\ c.param = "detune")

\* The calls of the last playNote on the frequency and the detune of its
\* oscillator.
OscillatorInstrs ==
    SelectSeq(last.instrs,
              LAMBDA c : c.node = PlayedOsc /\ c.param \in {"frequency", "detune"})

\* The drift settings of the last playNote ask for drift.
DriftAsked ==
    \/ (last.settings.driftMean # NaN /\ last.settings.driftMean > 0)
    \/ (last.settings.driftSpread # NaN /\ last.settings.driftSpread > 0)

\* The draws a pitch takes: none without variance, else those of one
\* normal deviate (one for u and one for v, and one more for every zero
\* that is drawn again).
PitchDraws ==
    IF last.settings.variance = 0 THEN 0
    ELSE gaussianRandom(last.src, 0).pos

\* C7: a playNote schedules drift exactly when driftMean > 0 or
\* driftSpread > 0.  Without drift it makes no call on the oscillator's
\* detune and takes no draw beyond those of the pitch; with drift the detune
\* is reset to 0 and at least one ramp or hold follows.
C7_DriftIffMeanOrSpreadPositive ==
    NotePlayed =>
        IF DriftAsked
        THEN /\ Len(DetuneInstrs) >= 2
             /\ DetuneInstrs[1].op = "setValueAtTime"
             /\ DetuneInstrs[1].value = 0
             /\ \A i \in 2..Len(DetuneInstrs) :
                    DetuneInstrs[i].op \in
                        {"linearRampToValueAtTime", "setValueAtTime"}
             /\ last.draws > PitchDraws
        ELSE /\ DetuneInstrs = <<>>
             /\ last.draws = PitchDraws

\* A note with variance and a negative mean and no spread was played: it
\* took the draws of its pitch and left detune alone.
C7_Witness ==
    /\ NotePlayed
    /\ last.settings.driftMean < 0
    /\ last.settings.driftSpread = 0
    /\ last.settings.variance > 0
    /\ last.draws > 0
    /\ DetuneInstrs = <<>>

\* C8: with drift, the calls on the oscillator are the frequency set at
\* now, the detune set to 0 at now, then the ramp and hold calls, at times
\* that never decrease and end no later than now + 24 h.
C8_FrequencyResetThenRamp ==
    (NotePlayed /\ DriftAsked) =>
        LET is == OscillatorInstrs
        IN  /\ Len(is) >= 3
            /\ is[1].param = "frequency" /\ is[1].op = "setValueAtTime"
            /\ RatEq(is[1].at, RatInt(now))
            /\ is[2].param = "detune" /\ is[2].op = "setValueAtTime"
            /\ is[2].value = 0
            /\ RatEq(is[2].at, RatInt(now))
            /\ \A i \in 3..Len(is) :
                /\ is[i].param = "detune"
                /\ ~(is[i].op = "setValueAtTime" /\ is[i].value = 0
                     /\ is[i - 1].op = "linearRampToValueAtTime")
            /\ \E i \in 3..Len(is) : is[i].op # "setValueAtTime" \/ Len(is) = 4
            /\ \A i \in 1..(Len(is) - 1) : RatLeq(is[i].at, is[i + 1].at)
            /\ RatEq(is[Len(is)].at,
                     RatInt(now + TimeScale * DRIFT_DURATION_SECONDS))

\* A sine note was played whose drift is clamped: its oscillator got the
\* frequency, the reset, a ramp ending before 24 h, and the hold.
C8_Witness ==
    /\ NotePlayed /\ DriftAsked
    /\ Len(OscillatorInstrs) = 4
    /\ OscillatorInstrs[3].op = "linearRampToValueAtTime"
    /\ RatLess(RatInt(now), OscillatorInstrs[3].at)
    /\ RatLess(OscillatorInstrs[3].at, OscillatorInstrs[4].at)

\* The last call was a stopNote that found a voice to release.
NoteReleased == last.op = "stopNote" /\ last.instrs # <<>>

\* C9: a stopNote of a sounding voice cancels and holds the gain automation
\* at now, sets the gain at now, ramps it exponentially to a positive floor
\* at now + 0.15 s and stops the oscillator at now + 0.16 s, in that order;
\* the stop is later than both ends of the ramp.
C9_ReleaseOrder ==
    NoteReleased =>
        LET is == last.instrs
            n == Len(is)
            g == is[1].node
        IN  /\ n \in {4, 5}
            /\ is[1].op \in {"cancelAndHoldAtTime", "cancelScheduledValues"}
            /\ (n = 5) = (is[1].op = "cancelScheduledValues")
            /\ n = 5 => is[2].op = "setValueAtTime"
            /\ \A i \in 1..(n - 1) :
                /\ is[i].node = g /\ is[i].param = "gain"
                /\ i < n - 1 => is[i].at = RatInt(now)
            /\ nodes[g].kind = "gain" /\ nodes[g].key = last.keyId
            /\ is[n - 2].op = "setValueAtTime"
            /\ is[n - 2].value > 0
            /\ is[n - 1].op = "exponentialRampToValueAtTime"
            /\ is[n - 1].value > 0
            /\ is[n - 1].at = RatInt(now + 15)
            /\ is[n].op = "stop"
            /\ nodes[is[n].node].kind = "oscillator"
            /\ nodes[is[n].node].key = last.keyId
            /\ is[n].at = RatInt(now + 16)
            /\ nodes[is[n].node].stopAt = now + 16
            /\ RatLess(is[n - 2].at, is[n].at)
            /\ RatLess(is[n - 1].at, is[n].at)

\* A voice was released in the middle of its attack on a browser without
\* cancelAndHoldAtTime.
C9_Witness ==
    /\ NoteReleased
    /\ Len(last.instrs) = 5
    /\ last.instrs[2].value > 0
    /\ last.instrs[2].value < baseVoiceGain

\* C10: the exponential release ramp of a stopNote ends at 0.001.
C10_ReleaseTargetIsThousandth ==
    NoteReleased =>
        \A i \in 1..Len(last.instrs) :
            last.instrs[i].op = "exponentialRampToValueAtTime" =>
                last.instrs[i].value * 1000 = GainScale

----------------------------------------------------------------------------
(* What a stopNote leaves alone.                                           *)

\* C11: a stopNote of a sounding key makes calls on the nodes of that
\* key's voice only, changes no node but that voice's oscillator, and
\* leaves the table entry of every other key as it was.
C11_StopTouchesOwnVoiceOnly ==
    [][StopNoteOnSoundingKey =>
        LET k == last'.keyId
            v == activeVoices[k]
        IN  /\ last'.instrs # <<>>
            /\ \A i \in 1..Len(last'.instrs) :
                last'.instrs[i].node \in {v.osc, v.filter, v.gainNode}
            /\ \A j \in DOMAIN activeVoices \ {k} :
                /\ j \in DOMAIN activeVoices'
                /\ activeVoices'[j] = activeVoices[j]
            /\ Len(nodes') = Len(nodes)
            /\ \A n \in 1..Len(nodes) : n # v.osc => nodes'[n] = nodes[n]]_vars

\* A voice was released while the voice of another key goes on sounding.
C11_Witness ==
    /\ NoteReleased
    /\ \E j \in DOMAIN activeVoices :
        /\ j # last.keyId
        /\ nodes[activeVoices[j].osc].stopAt < 0

----------------------------------------------------------------------------
(* The cutoff slider.                                                      *)

\* The step is an input of the cutoff slider.
CutoffStep == last'.op = "cutoff" /\ cutoffVal' \in CutoffValues /\ last' # last

\* C12: a cutoff input on an initialized engine sets the new value at the
\* current time on the filter of each voice of the table, once, and on no
\* other node (so on no filter of a voice that was stopped), and leaves
\* the table and the nodes as they were.
C12_CutoffOnSoundingVoicesOnly ==
    [][(CutoffStep /\ audioCtx) =>
        /\ activeVoices' = activeVoices
        /\ nodes' = nodes
        /\ Len(last'.instrs) = Cardinality(DOMAIN activeVoices)
        /\ \A k \in DOMAIN activeVoices :
            \E i \in 1..Len(last'.instrs) :
                last'.instrs[i].node = activeVoices[k].filter
        /\ \A i \in 1..Len(last'.instrs) :
            LET c == last'.instrs[i]
            IN  /\ c.param = "frequency" /\ c.op = "setValueAtTime"
                /\ c.value = cutoffVal'
                /\ c.at = RatInt(now)
                /\ nodes[c.node].kind = "filter"
                /\ \E k \in DOMAIN activeVoices :
                    activeVoices[k].filter = c.node]_vars

\* The slider moved with one voice sounding and another already stopped:
\* one filter was set.
C12_Witness ==
    /\ last.op = "cutoff"
    /\ Len(last.instrs) = 1
    /\ \E n \in 1..Len(nodes) :
        /\ nodes[n].kind = "oscillator"
        /\ nodes[n].stopAt >= 0

----------------------------------------------------------------------------
(* The drift a playNote plans.                                             *)

\* The last playNote planned a drift in the given mode.
DriftPlanned(mode) ==
    NotePlayed /\ DriftAsked /\ last.settings.driftMode = mode

\* The draw that decides the direction, and the one that follows it.
DirectionDraw == DrawAt(last.src, PitchDraws + 1)
SpeedDraw == DrawAt(last.src, PitchDraws + 2)

\* The value of the first ramp or hold on the detune of the played note.
FirstDetuneTarget == DetuneInstrs[2].value

\* C13: in uniform mode the speed is min' + r * (max' - min') with min' the
\* smaller and max' the larger of the two parameters and r the draw after
\* the direction's; it lies in [min', max']; and for every r from 0 to 1
\* the speed lies in [min', max'], is min' at r = 0 and max' at r = 1.
C13_UniformSpeedWithinSwappedRange ==
    DriftPlanned("uniform") =>
        LET lo == Min2(last.settings.driftMean, last.settings.driftSpread)
            hi == Max2(last.settings.driftMean, last.settings.driftSpread)
        IN  /\ last.drift.speed = lo + (SpeedDraw * (hi - lo)) \div DrawScale
            /\ lo <= last.drift.speed /\ last.drift.speed <= hi
            /\ last.drift.rate = last.drift.direction * last.drift.speed
            /\ last.settings.waveType # "sine" =>
                FirstDetuneTarget = last.drift.rate * DRIFT_DURATION_SECONDS
            /\ \A r \in 0..DrawScale :
                LET speed == uniformSpeed(last.settings.driftMean,
                                          last.settings.driftSpread, r)
                IN  /\ lo <= speed /\ speed <= hi
                    /\ r = 0 => speed = lo
                    /\ r = DrawScale => speed = hi

\* A uniform drift with the parameters given out of order (25, 5) and the
\* draw 0.25: the speed is 10.
C13_Witness ==
    /\ DriftPlanned("uniform")
    /\ last.settings.driftSpread < last.settings.driftMean
    /\ last.settings.driftSpread > 0
    /\ SpeedDraw > 0
    /\ last.drift.speed > last.settings.driftSpread
    /\ last.drift.speed < last.settings.driftMean

\* C14: the direction is +1 when the draw r is below the direction
\* probability (percent / 100) and -1 otherwise; a probability of 100 gives
\* +1 and a probability of 0 gives -1 for every draw below 1.
C14_DirectionFromDraw ==
    (NotePlayed /\ DriftAsked) =>
        LET percent == last.settings.driftDirection
        IN  /\ last.drift.direction =
                IF DirectionDraw * 100 < percent * DrawScale THEN 1 ELSE 0 - 1
            /\ percent = 100 => last.drift.direction = 1
            /\ percent = 0 => last.drift.direction = 0 - 1
            /\ \A r \in 0..(DrawScale - 1) :
                /\ directionOf(100, r) = 1
                /\ directionOf(0, r) = 0 - 1
                /\ directionOf(percent, r) = 1 <=> r * 100 < percent * DrawScale

\* With probability 50 the draw 0.50 gave -1.
C14_Witness ==
    /\ NotePlayed /\ DriftAsked
    /\ last.settings.driftDirection = 50
    /\ DirectionDraw = 50
    /\ last.drift.direction = 0 - 1

----------------------------------------------------------------------------
(* The pitch of a played note.                                             *)

\* The frequency the last playNote set on its oscillator.
InitialFrequency ==
    LET is == SelectSeq(last.instrs,
                        LAMBDA c : c.node = PlayedOsc /\ c.param = "frequency")
    IN  is[1].value

\* freq * 2^octaveShift, an unparsable octaveShift counting as 0.
ShiftedFreq ==
    LET shift == last.settings.octaveShift
    IN  IF shift = NaN \/ shift = 0 THEN last.freq
        ELSE IF shift > 0 THEN last.freq * (2 ^ shift)
        ELSE last.freq \div (2 ^ (0 - shift))

\* The draws the last playNote took for its pitch: all but the two of a
\* uniform drift.
PitchDrawsTaken ==
    IF DriftPlanned("uniform") THEN last.draws - 2 ELSE last.draws

\* C16: with variance 0 the pitch is the base frequency itself and no draw
\* is taken for it; with another variance the pitch is
\* base * 2^(z * variance / 1200), z being the deviate of the first draws:
\* it is positive, not below the base when z * variance >= 0 and not above
\* it when z * variance <= 0.  (The pitch is what a waveform without the
\* safeguard gets as its frequency.)
C16_PitchExactAtZeroVariance ==
    (NotePlayed /\ DriftPlanned("gaussian") = FALSE) =>
        LET variance == last.settings.variance
            g == gaussianRandom(last.src, 0)
            deviation == (g.z * variance) \div DrawScale
        IN  IF variance = 0
            THEN /\ PitchDrawsTaken = 0
                 /\ last.settings.waveType # "sine" =>
                        InitialFrequency = ShiftedFreq
            ELSE /\ PitchDrawsTaken = g.pos
                 /\ PitchDrawsTaken >= 2
                 /\ last.settings.waveType # "sine" =>
                     /\ InitialFrequency > 0
                     /\ InitialFrequency = MulPow2Cents(ShiftedFreq, deviation)
                     /\ deviation >= 0 => InitialFrequency >= ShiftedFreq
                     /\ deviation <= 0 => InitialFrequency <= ShiftedFreq

\* A square note of 30000 Hz with variance 0 and a source that would give a
\* non-zero deviate: its frequency is 30000 Hz and no draw was taken.
C16_Witness ==
    /\ NotePlayed
    /\ last.settings.variance = 0
    /\ last.settings.waveType = "square"
    /\ last.settings.octaveShift = 0
    /\ last.settings.driftMean = 0
    /\ last.freq = 30000 * HzScale
    /\ InitialFrequency = 30000 * HzScale
    /\ last.draws = 0
    /\ gaussianRandom(last.src, 0).z # 0

\* C17: with variance 0 the frequency set on the oscillator is
\* freq * 2^octaveShift, clamped into [minHz, maxHz] for sine and as it is
\* for every other waveform; for sine it is within [minHz, maxHz] whatever
\* the variance.
C17_InitialFrequencyShiftedThenClamped ==
    NotePlayed =>
        LET bounds == getFrequencyBounds
            sine == last.settings.waveType = "sine"
        IN  /\ (last.settings.variance = 0 /\ sine) =>
                InitialFrequency = Min2(bounds.max, Max2(bounds.min, ShiftedFreq))
            /\ (last.settings.variance = 0 /\ ~sine) =>
                InitialFrequency = ShiftedFreq
            /\ sine => /\ bounds.min <= InitialFrequency
                       /\ InitialFrequency <= bounds.max

\* A square note of 30000 Hz shifted up an octave was set to 60000 Hz,
\* above maxHz.
C17_Witness ==
    /\ NotePlayed
    /\ last.settings.variance = 0
    /\ last.settings.waveType = "square"
    /\ last.settings.octaveShift = 1
    /\ InitialFrequency = 60000 * HzScale
    /\ InitialFrequency > getFrequencyBounds.max

----------------------------------------------------------------------------
(* The frequency bounds and the clamp.                                     *)

\* C18: the bounds are min = 1 Hz and max = max(1 Hz, 0.45 * sampleRate),
\* the sample rate being 44100 when there is no context or the context
\* reports none, so min <= max; the clamp of a start frequency is min for
\* NaN and the infinities, and for a finite frequency is within
\* [min, max] and is the frequency itself when that is within [min, max].
C18_BoundsAndClamp ==
    LET rate == IF audioCtx /\ env.sampleRate # 0 THEN env.sampleRate ELSE 44100
        lo == 1 * HzScale
        hi == IF (45 * rate * HzScale) \div 100 > lo
              THEN (45 * rate * HzScale) \div 100 ELSE lo
    IN  /\ getFrequencyBounds.min = lo
        /\ getFrequencyBounds.max = hi
        /\ getFrequencyBounds.min <= getFrequencyBounds.max
        /\ (ramp.called /\ ramp.useSafeguard) =>
            /\ ramp.bounds = [min |-> lo, max |-> hi]
            /\ IF ramp.startFreq \in {NaN, Infinity, 0 - Infinity}
               THEN ramp.safeStartFreq = lo
               ELSE /\ lo <= ramp.safeStartFreq
                    /\ ramp.safeStartFreq <= hi
                    /\ (lo <= ramp.startFreq /\ ramp.startFreq <= hi) =>
                        ramp.safeStartFreq = ramp.startFreq
                    /\ ramp.startFreq < lo => ramp.safeStartFreq = lo
                    /\ ramp.startFreq > hi => ramp.safeStartFreq = hi

\* A ramp was asked for a start frequency of +Infinity on a context of
\* 48000 Hz: the clamp gave 1 Hz, with max at 21600 Hz.
C18_Witness ==
    /\ ramp.called /\ ramp.useSafeguard
    /\ ramp.startFreq = Infinity
    /\ ramp.safeStartFreq = 1 * HzScale
    /\ ramp.bounds.max = 21600 * HzScale

----------------------------------------------------------------------------
(* gaussianRandom returns.                                                 *)

\* C19: a gaussianRandom call on a uniform source returns, with a finite
\* value; u is not 0 when its loop is left, so log(0) is not evaluated,
\* and v is not 0 when its loop is left.
C19_GaussianRandomReturns ==
    /\ [](gauss.pc \in {"drawV", "return", "done"} => gauss.u # 0)
    /\ [](gauss.pc \in {"return", "done"} => gauss.v # 0)
    /\ [](gauss.pc = "done" => IsFinite(gauss.z))
    /\ (gauss.pc = "drawU" ~> gauss.pc = "done")

\* A call returned after drawing 0 for u and again for v before the draws
\* it kept.
C19_Witness ==
    /\ gauss.pc = "done"
    /\ gauss.draws = 4
    /\ gauss.u # 0
    /\ gauss.v # 0
    /\ gauss.z # 0

----------------------------------------------------------------------------
(* Key identifiers that name inherited properties.                         *)

\* The step is a playNote(keyId) call on an initialized engine with no
\* voice recorded for keyId.
PlayNoteOnUnrecordedKey ==
    /\ last'.op = "playNote"
    /\ last' # last
    /\ audioCtx
    /\ last'.keyId \notin DOMAIN activeVoices

\* C20: for every keyId, a playNote on an initialized engine with no voice
\* recorded for the keyId creates a voice for it, and no playNote and no
\* stopNote throws.
C20_EveryKeyIdPlaysAndNeverRaises ==
    [][/\ PlayNoteOnUnrecordedKey =>
            /\ last'.keyId \in DOMAIN activeVoices'
            /\ last'.created = 3
       /\ last'.op \in {"playNote", "stopNote"} => ~last'.raised]_vars

----------------------------------------------------------------------------
(* The layout select.                                                      *)

\* The step is a change event of the layout select.
LayoutStep == last'.op = "layout"

\* The calls in instrs that release the voice v: the exponential ramp of
\* its gain and the stop of its oscillator.
Released(instrs, v) ==
    /\ \E i \in 1..Len(instrs) :
        /\ instrs[i].node = v.gainNode
        /\ instrs[i].op = "exponentialRampToValueAtTime"
    /\ \E i \in 1..Len(instrs) :
        /\ instrs[i].node = v.osc
        /\ instrs[i].op = "stop"

\* C21: after a change event of the layout select the voice table is
\* empty, and every voice that was in it (whether a pointer, the keyboard
\* or MIDI started it) has got its release ramp and its oscillator's stop.
C21_LayoutChangeStopsEveryVoice ==
    [][LayoutStep =>
        /\ activeVoices' = << >>
        /\ \A k \in DOMAIN activeVoices :
            /\ Released(last'.instrs, activeVoices[k])
            /\ nodes'[activeVoices[k].osc].stopAt >= 0]_vars

\* A layout change has released a key's voice and a MIDI voice together.
C21_Witness ==
    /\ last.op = "layout"
    /\ activeVoices = << >>
    /\ \E i, j \in 1..Len(nodes) :
        /\ nodes[i].kind = "oscillator" /\ nodes[i].key = "midi:0:69"
        /\ nodes[j].kind = "oscillator" /\ nodes[j].key \in DOMAIN notes
        /\ \E a, b \in 1..Len(last.instrs) :
            /\ last.instrs[a].node = i /\ last.instrs[a].op = "stop"
            /\ last.instrs[b].node = j /\ last.instrs[b].op = "stop"

----------------------------------------------------------------------------
(* init, called again and again.                                           *)

\* The step is a call of init.
InitStep == last'.op = "init"

\* The calls in instrs that connect a node to the context's destination.
DestinationConnects(instrs) ==
    SelectSeq(instrs, LAMBDA c : c.op = "connect" /\ c.value = DestinationNode)

\* C22: however often init is called on a Synth, one audio context and one
\* master gain are constructed, and the master chain is connected to the
\* destination once: by the first call (from the limiter when the context
\* has a dynamics compressor, else from the master gain), and by no call
\* after it.
C22_InitIdempotent ==
    [][InitStep =>
        LET connects == DestinationConnects(last'.instrs)
        IN  /\ audioCtx'
            /\ master'.contexts = 1
            /\ master'.gains = 1
            /\ master'.destinationConnections = 1
            /\ Len(connects)
                 = master'.destinationConnections - master.destinationConnections
            /\ IF audioCtx
               THEN /\ last'.instrs = <<>>
                    /\ master'.masterLimiter = master.masterLimiter
               ELSE /\ Len(connects) = 1
                    /\ connects[1].node = IF env.compressor THEN MasterLimiterNode
                                          ELSE MasterGainNode
                    /\ master'.masterLimiter = env.compressor]_vars

\* init was called on a Synth that had its context, on a browser without
\* a dynamics compressor, and made no call.
C22_Witness ==
    /\ last.op = "init"
    /\ last.instrs = <<>>
    /\ ~env.compressor
    /\ master.contexts = 1
    /\ master.destinationConnections = 1

----------------------------------------------------------------------------
(* The controls while a voice sounds.                                      *)

\* The step is a handled change of the octave shift (buttons or keyboard
\* shortcuts), the variance, the waveform or a drift control.
ControlStep ==
    \/ last'.op \in {"octaveDown", "octaveUp", "variance", "waveform",
                     "driftDirection", "driftMean", "driftSpread", "driftMode"}
    \/ last'.op = "keydown" /\ page'.octaveShift # page.octaveShift

\* The step is a key press that started a voice.
KeyStartedVoice == last'.op = "keydown" /\ last'.created = 3

\* The first call of the last handler on the parameter param of new node n.
FirstOn(instrs, n, param) ==
    Head(SelectSeq(instrs, LAMBDA c : c.node = n /\ c.param = param))

\* C23: a change of the octave shift, the variance, the waveform or a drift
\* control makes no call on any audio node and leaves the voice table, the
\* nodes and the master chain as they were; a voice started afterwards is
\* played with the controls' values of that moment: its oscillator type,
\* its start frequency (shifted by the octave, when the variance is 0) and
\* whether it drifts.
C23_ControlsTouchNoVoice ==
    [][/\ ControlStep =>
            /\ last'.instrs = <<>>
            /\ UNCHANGED <<activeVoices, nodes, audioCtx, master>>
       /\ KeyStartedVoice =>
            LET osc == Len(nodes) + 1
                shifted == Shift2(last'.freq, page.octaveShift)
            IN  /\ last'.settings.variance = page.variance
                /\ last'.settings.octaveShift = page.octaveShift
                /\ last'.settings.waveType = page.waveform
                /\ last'.settings.driftDirection = page.driftDirection
                /\ last'.settings.driftMean = page.driftMean
                /\ last'.settings.driftSpread = page.driftSpread
                /\ last'.settings.driftMode = "uniform" <=> page.driftMode
                /\ FirstOn(last'.instrs, osc, "type").value
                     = waveTypeIndex(page.waveform)
                /\ page.variance = 0 =>
                     FirstOn(last'.instrs, osc, "frequency").value
                       = IF shouldApplyFrequencySafeguard(page.waveform)
                         THEN clampFrequency(shifted) ELSE shifted
                /\ (\E i \in 1..Len(last'.instrs) :
                        last'.instrs[i].param = "detune")
                     <=> (page.driftMean > 0 \/ page.driftSpread > 0)]_vars

\* The octave was shifted up while a voice played at the unshifted octave
\* goes on sounding.
C23_Witness ==
    /\ last.op \in {"octaveUp", "keydown"}
    /\ last.created = 0
    /\ page.octaveShift = 1
    /\ \E k \in DOMAIN activeVoices : nodes[activeVoices[k].osc].stopAt < 0

\* A voice was started with controls that are not the document's.
VoiceStartedWithChangedControls ==
    /\ last.op = "keydown"
    /\ last.created = 3
    /\ last.settings.octaveShift = 1
    /\ last.settings.variance = 50
    /\ last.settings.waveType = "square"

----------------------------------------------------------------------------
(* Recording.                                                              *)

\* The step is a call of startRecording, of stopRecording.
StartStep == last'.op = "recordStart" /\ last' # last
StopStep == last'.op = "recordStop" /\ last' # last

\* The calls in instrs with this op from the master gain to the recorder.
MasterToRecorder(instrs, op) ==
    SelectSeq(instrs, LAMBDA c : /\ c.node = MasterGainNode
                                 /\ c.op = op
                                 /\ c.value = RecorderNode)

\* C24: the Start button is disabled exactly while recording and the Stop
\* button exactly while not; the recorder is connected to the master gain
\* exactly while recording (connected by the start that begins a recording,
\* disconnected by the stop that ends it); a start while recording and a
\* stop while not recording change nothing; a stop that ends a recording
\* downloads one WAV.
C24_RecordingControls ==
    /\ [](/\ recorder.startDisabled <=> recorder.isRecording
          /\ recorder.stopDisabled <=> ~recorder.isRecording
          /\ recorder.recorderInputConnected <=> recorder.isRecording
          /\ recorder.recorderNode <=> recorder.isRecording)
    /\ [][/\ StartStep /\ recorder.isRecording =>
                /\ last'.instrs = <<>>
                /\ UNCHANGED <<recorder, audioCtx, master, activeVoices, nodes>>
          /\ StartStep /\ ~recorder.isRecording =>
                /\ recorder'.isRecording
                /\ Len(MasterToRecorder(last'.instrs, "connect")) = 1
                /\ recorder'.downloaded = recorder.downloaded
          /\ StopStep /\ ~recorder.isRecording =>
                /\ last'.instrs = <<>>
                /\ UNCHANGED <<recorder, audioCtx, master, activeVoices, nodes>>
          /\ StopStep /\ recorder.isRecording =>
                /\ ~recorder'.isRecording
                /\ Len(MasterToRecorder(last'.instrs, "disconnect")) = 1
                /\ Len(recorder'.downloaded) = Len(recorder.downloaded) + 1
          /\ ~StopStep => recorder'.downloaded = recorder.downloaded]_vars

\* A start was asked for during a second recording, after the first was
\* stopped and downloaded.
C24_Witness ==
    /\ last.op = "recordStart"
    /\ last.instrs = <<>>
    /\ recorder.isRecording
    /\ recorder.startDisabled
    /\ ~recorder.stopDisabled
    /\ Len(recorder.downloaded) = 1

----------------------------------------------------------------------------
(* The memory of the drift modes.                                          *)

\* The step is a change event of the drift mode toggle: a click on the
\* toggle or on one of the two mode labels.
ModeStep == last'.op \in {"driftMode", "driftModeLabel"}

\* The name of the mode the toggle shows when it is checked or not.
ModeName(checked) == IF checked THEN "uniform" ELSE "gaussian"

\* The values the two drift sliders show.
Showing(pg) == [mean |-> pg.driftMean, spread |-> pg.driftSpread]

\* C25: each drift mode remembers its settings.  A mode change through the
\* toggle or a label leaves one mode and enters the other: the sliders
\* then show what the entered mode showed when it was last left (0 and 0
\* if it never was), the values the left mode showed are remembered for
\* it, and what is remembered for the entered mode is kept.  A click on
\* the label of the mode that is already showing leaves no mode: the
\* sliders and what both modes remember stay as they are.
C25_ModesRememberSettings ==
    [][ModeStep =>
        LET left == ModeName(page.driftMode)
            entered == ModeName(page'.driftMode)
        IN  IF entered # left
            THEN /\ Showing(page') = page.driftDefaults[entered]
                 /\ page'.driftDefaults[left] = Showing(page)
                 /\ page'.driftDefaults[entered] = page.driftDefaults[entered]
            ELSE /\ Showing(page') = Showing(page)
                 /\ page'.driftDefaults = page.driftDefaults]_vars

----------------------------------------------------------------------------
(* Minimum and maximum in Uniform mode.                                    *)

\* The step is an input event of the mean (minimum) slider, of the spread
\* (maximum) slider, or a click on a stepper of one of them.
MeanSlideStep == last'.op = "driftMean"
SpreadSlideStep == last'.op = "driftSpread"
StepperStep == last'.op = "stepper"

\* A page in the given mode whose drift sliders were set to mean and
\* spread without their events handled yet.
SlidersSet(checked, mean, spread) ==
    [page EXCEPT !.driftMode = checked, !.driftMean = mean,
                 !.driftSpread = spread]

\* C26: in Uniform mode the minimum slider is never above the maximum
\* slider once a handler has returned, and each handled input event of a
\* slider leaves it so, whatever the sliders held: an event of the minimum
\* slider above the maximum sets the maximum to the minimum, an event of
\* the maximum slider below the minimum sets the minimum to the maximum,
\* and otherwise the other slider keeps its value.  In Gaussian mode an
\* input event of one slider never changes the other.
C26_UniformMinNotAboveMax ==
    /\ [](/\ page.driftMode => page.driftMean <= page.driftSpread
          /\ \A v, w \in DriftSliderValues :
                LET byMean == driftMeanInput(SlidersSet(TRUE, v, w))
                    bySpread == driftSpreadInput(SlidersSet(TRUE, v, w))
                    gaussMean == driftMeanInput(SlidersSet(FALSE, v, w))
                    gaussSpread == driftSpreadInput(SlidersSet(FALSE, v, w))
                IN  /\ Showing(byMean) = [mean |-> v, spread |-> Max2(v, w)]
                    /\ Showing(bySpread) = [mean |-> Min2(v, w), spread |-> w]
                    /\ Showing(gaussMean) = [mean |-> v, spread |-> w]
                    /\ Showing(gaussSpread) = [mean |-> v, spread |-> w])
    /\ [][/\ MeanSlideStep /\ page.driftMode =>
                page'.driftSpread = Max2(page.driftSpread, page'.driftMean)
          /\ SpreadSlideStep /\ page.driftMode =>
                page'.driftMean = Min2(page.driftMean, page'.driftSpread)
          /\ MeanSlideStep /\ ~page.driftMode =>
                page'.driftSpread = page.driftSpread
          /\ SpreadSlideStep /\ ~page.driftMode =>
                page'.driftMean = page.driftMean
          /\ StepperStep /\ ~page.driftMode =>
                \/ page'.driftSpread = page.driftSpread
                \/ page'.driftMean = page.driftMean
          /\ (MeanSlideStep \/ SpreadSlideStep \/ StepperStep) =>
                page'.driftMode = page.driftMode]_vars

\* In Uniform mode the minimum slider was moved, and the maximum, which
\* its input event has shown last, stands at the same value above 0.
C26_Witness ==
    /\ page.driftMode
    /\ last.op = "driftMean"
    /\ page.driftMean = 20
    /\ page.driftSpread = 20
    /\ page.driftDefaults.uniform = [mean |-> 0, spread |-> 0]
    /\ page.driftDefaults.gaussian = [mean |-> 0, spread |-> 0]

----------------------------------------------------------------------------
(* The MIDI input that has the message handler.                            *)

\* The step is the change handler of the input select.
SelectStep == last'.op = "midiSelect"

\* The input the page has selected, as a set: empty when none is.
SelectedInput(m) == {m.selectedMidiInputId} \ {""}

\* C27: in every state reached by enabling, selecting, refreshing and by
\* devices coming and going, at most one input has the message handler
\* and only the selected input can have it; detaching leaves no input
\* with the handler, so an attach, which detaches first, never adds a
\* second one; and after a selection the input that had the handler has
\* lost it unless it is the one chosen.
C27_OneMidiHandler ==
    /\ [](/\ Cardinality(midi.handlers) <= 1
          /\ midi.handlers \subseteq SelectedInput(midi)
          /\ midi.handlers \subseteq {midi.selectedMidiInput}
          /\ midi.handlers \subseteq Range(getMidiInputs(midi))
          /\ detachSelectedMidiInputListener(midi).handlers = {}
          /\ \A dev \in MidiDevices :
                LET chosen == attachSelectedMidiInputListener(
                                  [midi EXCEPT !.selectedMidiInputId = dev])
                IN  chosen.handlers \subseteq {dev})
    /\ [][SelectStep =>
             /\ midi'.handlers \subseteq {midi'.selectValue}
             /\ (midi.handlers \ {midi'.selectValue}) \cap midi'.handlers = {}
             /\ midi'.selectValue \in Range(midi.ports) =>
                    midi'.handlers = {midi'.selectValue}]_vars

\* With both devices connected, the first one had been selected when MIDI
\* was enabled, and the select has moved the handler to the second.
C27_Witness ==
    /\ last.op = "midiSelect"
    /\ midi.ports = <<"dev-1", "dev-2">>
    /\ midi.selectValue = "dev-2"
    /\ midi.handlers = {"dev-2"}
    /\ midi.status = connectedStatus("dev-2")

----------------------------------------------------------------------------
(* MIDI notes and their voices.                                            *)

\* The channel and the voice id a message is about.
ChannelOf(data) == data[1] % 16
VoiceOf(data) ==
    "midi:" \o ToString(ChannelOf(data)) \o ":" \o ToString(data[2])

\* A note-on with a velocity above 0; a note-off, a note-on of velocity 0
\* or one that carries no velocity.
IsNoteOn(data) == Len(data) > 2 /\ data[1] \div 16 = 9 /\ data[3] > 0
IsNoteOff(data) ==
    /\ Len(data) >= 2
    /\ \/ data[1] \div 16 = 8
       \/ data[1] \div 16 = 9 /\ (Len(data) = 2 \/ data[3] = 0)

\* The step is the handler called with this message by the input it is on.
Sent(data) ==
    /\ last'.op = "midimessage"
    /\ \E dev \in MidiDevices, src \in RandomSources :
          MidiMessage(dev, data, src)

\* 440 * 2^((n - 69) / 12) in 1/100 Hz for the notes the inputs send.
EqualTempered(n) == IF n = 69 THEN 44000 ELSE IF n = 81 THEN 88000 ELSE 0

\* The calls in instrs that stop an oscillator.
OscillatorStops(instrs) == SelectSeq(instrs, LAMBDA c : c.op = "stop")

\* The note of the message is registered as held.
Held(data) == VoiceOf(data) \in Range(midi.midiActiveNotes)

\* The step leaves every voice but id as it was.
OthersKept(id) ==
    /\ DOMAIN activeVoices' \ {id} = DOMAIN activeVoices \ {id}
    /\ \A k \in DOMAIN activeVoices \ {id} : activeVoices'[k] = activeVoices[k]

\* The step has started the voice id with one new oscillator, filter and
\* gain, and the oscillator's first frequency is freq.
StartedOneVoice(id, freq) ==
    /\ id \notin DOMAIN activeVoices
    /\ id \in DOMAIN activeVoices'
    /\ last'.created = 3
    /\ Len(nodes') = Len(nodes) + 3
    /\ activeVoices'[id].osc = Len(nodes) + 1
    /\ FirstOn(last'.instrs, Len(nodes) + 1, "frequency").value
         = clampFrequency(freq)
    /\ OthersKept(id)

MidiNoteOffReleasedOneChannel ==
    /\ last.op = "midimessage"
    /\ last.keyId = "midi:0:69"
    /\ Len(OscillatorStops(last.instrs)) = 1
    /\ DOMAIN activeVoices = {"midi:1:69"}

----------------------------------------------------------------------------
(* The texts that name a MIDI input.                                       *)

\* The step is the rest of enableMidi after access was granted.
AccessStep == last'.op = "midiAccess"

\* The pieces of a text joined.
RECURSIVE Text(_)
Text(pieces) ==
    IF pieces = <<>> THEN "" ELSE Head(pieces) \o Text(Tail(pieces))

\* The text has part in it.
Contains(text, part) ==
    \E i \in 1..(Len(text) - Len(part) + 1) :
        SubSeq(text, i, i + Len(part) - 1) = part

\* "<name> (<manufacturer>)" of an input.
NameAndManufacturer(input) ==
    deviceName(input) \o " (" \o deviceManufacturer(input) \o ")"

\* C29: when MIDI is enabled and the first input has a name and a
\* manufacturer, that input is selected and has the handler, the status
\* text contains "Connected: <name> (<manufacturer>)", and the text of
\* the input's option is "<name> (<manufacturer>)".
C29_StatusNamesManufacturer ==
    [][/\ AccessStep
       /\ midi.ports # <<>>
       /\ midi.selectedMidiInputId = ""
       /\ deviceName(midi.ports[1]) # ""
       /\ deviceManufacturer(midi.ports[1]) # ""
       => LET input == midi.ports[1]
          IN  /\ midi'.selectValue = input
              /\ ~midi'.selectDisabled
              /\ midi'.handlers = {input}
              /\ Contains(Text(midi'.status),
                          "Connected: " \o NameAndManufacturer(input))
              /\ \E i \in 1..Len(midi'.options) :
                    /\ midi'.options[i].value = input
                    /\ Text(midi'.options[i].label)
                         = NameAndManufacturer(input)]_vars

\* What does hold of that step: the input is selected, and the texts
\* give its name only.
MidiEnabledNamesInput ==
    [][/\ AccessStep
       /\ midi.ports # <<>>
       /\ midi.selectedMidiInputId = ""
       /\ deviceName(midi.ports[1]) # ""
       => LET input == midi.ports[1]
          IN  /\ midi'.selectValue = input
              /\ ~midi'.selectDisabled
              /\ midi'.handlers = {input}
              /\ Text(midi'.status) = "Connected: " \o deviceName(input)
              /\ \E i \in 1..Len(midi'.options) :
                    /\ midi'.options[i].value = input
                    /\ Text(midi'.options[i].label) = deviceName(input)]_vars

----------------------------------------------------------------------------
(* One note whose pitch and drift both draw: variance 0 and not 0, a       *)
(* direction that depends on its draw, both drift modes.                   *)

DrawSources ==
    {<<50, 25>>, <<90, 50, 25>>, <<49, 0>>, <<0, 99, 0, 1>>,
     <<10, 60, 90, 30, 70>>}
DrawSettings ==
    [variance : {0, 50}, waveType : {"sine", "square"}, cutoff : {1000},
     octaveShift : {0}, driftDirection : {50},
     driftMode : {"gaussian", "uniform"}, driftMean : {0, 25},
     driftSpread : {0, 5}]

NextDraws ==
    \/ SynthInit
    \/ \E freq \in Freqs, keyId \in NoteKeys, settings \in DrawSettings,
          src \in DrawSources :
            /\ audioCtx
            /\ nodes = << >>
            /\ PlayNote(freq, keyId, settings, src)
    \/ \E keyId \in NoteKeys : StopNote(keyId)
    \/ Tick

SpecDraws == InitCutoff /\ [][NextDraws]_vars

----------------------------------------------------------------------------
(* The order of the draws of a playNote.                                   *)

\* The deviate of the speed in Gaussian mode, drawn after the direction.
SpeedDeviate == gaussianRandom(last.src, PitchDraws + 1)

\* The frequency the oscillator of the played note starts at.
StartFrequency == FirstOn(last.instrs, 1, "frequency").value

\* C30: a playNote takes its draws in one order.  First those of the
\* pitch: none at variance 0, else those of one normal deviate, which
\* gives the start frequency.  Without drift no more are taken.  With
\* drift the next draw decides the direction, and the speed is made of
\* the draws after it: one in Uniform mode, those of a normal deviate in
\* Gaussian mode; the draw of the direction is not among them.
C30_DrawOrder ==
    NotePlayed =>
        LET variance == last.settings.variance
            pitch == gaussianRandom(last.src, 0)
            mean == last.settings.driftMean
            spread == last.settings.driftSpread
        IN  /\ variance = 0 <=> PitchDraws = 0
            /\ variance # 0 =>
                /\ PitchDraws = pitch.pos
                /\ PitchDraws >= 2
                /\ last.settings.waveType # "sine" =>
                    StartFrequency
                      = MulPow2Cents(ShiftedFreq,
                                     (pitch.z * variance) \div DrawScale)
            /\ ~DriftAsked => last.draws = PitchDraws
            /\ DriftAsked =>
                /\ last.drift.direction
                     = directionOf(last.settings.driftDirection, DirectionDraw)
                /\ last.drift.rate = last.drift.direction * last.drift.speed
                /\ IF last.settings.driftMode = "uniform"
                   THEN /\ last.draws = PitchDraws + 2
                        /\ last.drift.speed
                             = uniformSpeed(mean, spread, SpeedDraw)
                   ELSE /\ last.draws = SpeedDeviate.pos
                        /\ last.draws >= PitchDraws + 3
                        /\ last.drift.speed
                             = gaussianSpeed(mean, spread, SpeedDeviate.z)

\* A note with variance and a Gaussian drift: two draws gave the pitch,
\* the third, 90, sent the drift down, and the fourth and fifth gave the
\* speed.
C30_Witness ==
    /\ NotePlayed
    /\ last.src = <<10, 60, 90, 30, 70>>
    /\ last.settings.variance = 50
    /\ last.settings.driftMode = "gaussian"
    /\ last.settings.driftMean = 25
    /\ last.settings.driftSpread = 5
    /\ PitchDraws = 2
    /\ last.drift.direction = 0 - 1
    /\ last.draws = 5

\* The same note with a Uniform drift: the direction's draw, 90, would
\* give another speed than the fourth draw, 30, does.
UniformSpeedFromFourthDraw ==
    /\ NotePlayed
    /\ last.src = <<10, 60, 90, 30, 70>>
    /\ last.settings.variance = 50
    /\ last.settings.driftMode = "uniform"
    /\ last.settings.driftMean = 0
    /\ last.settings.driftSpread = 5
    /\ last.draws = 4
    /\ last.drift.speed = uniformSpeed(0, 5, 30)
    /\ last.drift.speed # uniformSpeed(0, 5, 90)

----------------------------------------------------------------------------
(* The time to the limit of a clamped ramp.                                *)

\* The last call had the safeguard, a rate that is finite and not 0, and
\* a target outside the limits.
RampTargetOutside ==
    /\ ramp.called
    /\ ramp.useSafeguard
    /\ ramp.driftRate # 0
    /\ IsFinite(ramp.driftRate)
    /\ IsFinite(RampMinDetune) /\ IsFinite(RampMaxDetune)
    /\ ~(RampMinDetune <= RampTarget /\ RampTarget <= RampMaxDetune)

\* detuneLimit / driftRate of the last call, from its arguments.
RampTimeToLimit == Rat(RampLimit, ramp.driftRate)

\* The bound of the frequency the rate of the last call leads to.
RampBoundApproached ==
    IF ramp.driftRate > 0 THEN ramp.bounds.max ELSE ramp.bounds.min

\* C31: when scheduleDetuneRamp is called with the safeguard, a finite
\* rate other than 0 and a positive duration, and the target lies outside
\* the limits, then 0 <= timeToLimit < duration, so the call is never the
\* single ramp to the target; the limit is set at once exactly when it is
\* 0, which is exactly when the clamped start frequency is the bound the
\* rate leads to; in the other cases the ramp ends at now + timeToLimit
\* on the limit.
C31_TimeToLimitWithinDuration ==
    RampTargetOutside =>
        /\ RampMinDetune <= 0 /\ 0 <= RampMaxDetune
        /\ RatLeq(RatInt(0), RampTimeToLimit)
        /\ RatLess(RampTimeToLimit, RatInt(ramp.duration))
        /\ Len(ramp.out) = 2
        /\ ramp.out[2].op = "setValueAtTime"
        /\ ramp.out[2].value = RampLimit
        /\ ramp.out[1].value = RampLimit
        /\ ramp.out[1].op = "setValueAtTime" <=> RampLimit = 0
        /\ RampLimit = 0 <=> ramp.safeStartFreq = RampBoundApproached
        /\ RampLimit # 0 =>
            /\ ramp.out[1].op = "linearRampToValueAtTime"
            /\ RatEq(ramp.out[1].at, TimeAfter(now, RampTimeToLimit))

\* A rising 24 hour ramp was called for a start frequency above the upper
\* bound: the clamped start is the bound, and the limit is set at once.
C31_Witness ==
    /\ RampTargetOutside
    /\ ramp.driftRate > 0
    /\ ramp.duration = DRIFT_DURATION_SECONDS
    /\ ramp.startFreq = 30000 * HzScale
    /\ ramp.safeStartFreq = ramp.bounds.max
    /\ ramp.out[1].op = "setValueAtTime"
    /\ ramp.out[1].value = 0

\* A falling ramp from 440 Hz reaches the lower limit after the start and
\* before the end.
RampReachesLimitWithinDuration ==
    /\ RampTargetOutside
    /\ ramp.driftRate < 0
    /\ ramp.startFreq = 440 * HzScale
    /\ RatLess(RatInt(0), RampTimeToLimit)
    /\ ramp.out[1].op = "linearRampToValueAtTime"

----------------------------------------------------------------------------
(* The value the release starts from.                                      *)

\* The last call was a stopNote that released a voice.
ReleaseCalled == last.op = "stopNote" /\ last.instrs # <<>>

\* The exponential ramps among the calls of the last stopNote, by position.
ReleaseRamps ==
    {i \in 1..Len(last.instrs) :
        last.instrs[i].op = "exponentialRampToValueAtTime"}

\* C32: a stopNote that releases a voice makes one exponential ramp, on
\* the voice's gain, to the release floor; the call just before it sets
\* the gain, at the time of the call, to max(current gain, release floor):
\* a value above 0, also when the attack has not yet raised the gain from
\* 0, and not below the ramp's target, which the ramp reaches later.
C32_ReleaseStartsAboveZero ==
    ReleaseCalled =>
        /\ Cardinality(ReleaseRamps) = 1
        /\ \A k \in ReleaseRamps :
            /\ k > 1
            /\ LET start == last.instrs[k - 1]
                   end == last.instrs[k]
               IN  /\ start.op = "setValueAtTime"
                   /\ start.param = "gain" /\ end.param = "gain"
                   /\ start.node = end.node
                   /\ nodes[start.node].kind = "gain"
                   /\ start.value = Max2(gainValue(start.node), releaseFloorGain)
                   /\ start.value > 0
                   /\ end.value = releaseFloorGain
                   /\ end.value > 0
                   /\ start.value >= end.value
                   /\ RatEq(start.at, RatInt(now))
                   /\ RatLess(start.at, end.at)

\* A voice was released at the time it was started, on a browser without
\* cancelAndHoldAtTime: the gain was 0 and is set to 0 by the fallback,
\* and the release starts from the floor.
C32_Witness ==
    /\ ReleaseCalled
    /\ ~env.cancelAndHold
    /\ \E k \in ReleaseRamps :
        /\ gainValue(last.instrs[k].node) = 0
        /\ last.instrs[k - 2].op = "setValueAtTime"
        /\ last.instrs[k - 2].value = 0
        /\ last.instrs[k - 1].value = releaseFloorGain

\* A voice was released after its attack: the release starts from the
\* full voice gain.
ReleaseFromFullGain ==
    /\ ReleaseCalled
    /\ \E k \in ReleaseRamps : last.instrs[k - 1].value = baseVoiceGain

----------------------------------------------------------------------------
(* The MIDI notes registered as held, and their voices.                    *)

\* C33: every id in the map of held MIDI notes has a voice in the
\* synth's table, in every state that MIDI messages, pointer and keyboard
\* events and layout changes lead to; and a note-on message for a note
\* without a voice in the table leaves that note with a voice.
C33_HeldMidiNotesHaveVoices ==
    /\ [](\A id \in Range(midi.midiActiveNotes) : id \in DOMAIN activeVoices)
    /\ [][\A data \in MidiMessages :
            /\ IsNoteOn(data)
            /\ VoiceOf(data) \notin DOMAIN activeVoices
            /\ Sent(data)
            => VoiceOf(data) \in DOMAIN activeVoices']_vars

\* What does hold: a MIDI voice in the table is registered as held, and
\* only a layout change takes the voice of a held note away.
HeldHaveVoices ==
    \A id \in Range(midi.midiActiveNotes) : id \in DOMAIN activeVoices
MidiVoicesAreHeld ==
    /\ [](\A id \in DOMAIN activeVoices \ DOMAIN notes :
            id \in Range(midi.midiActiveNotes))
    /\ [][(HeldHaveVoices /\ ~LayoutStep) => HeldHaveVoices']_vars

----------------------------------------------------------------------------
(* The page unloads, and the ways a MIDI input is detached.                *)

\* The beforeunload handler: stopAllMidiNotes(), then
\* detachSelectedMidiInputListener().
BeforeUnload ==
    /\ LET s == stopAllMidiNotes([midi |-> midi, st |-> sweepStart])
       IN  midiHandled("beforeunload",
                [s EXCEPT !.midi = detachSelectedMidiInputListener(@)])
    /\ UNCHANGED <<env, audioCtx, master, now, ramp, cutoffVal, gauss, recorder>>

DetachMessages == {<<144, 69, 100>>, <<145, 69, 100>>, <<128, 69, 0>>}

NextDetach ==
    \/ EnableClick
    \/ AccessGranted
    \/ \E dev \in MidiDevices : Plug(dev)
    \/ \E dev \in MidiDevices : Unplug(dev)
    \/ \E value \in MidiDevices \cup {""} : SelectChange(value)
    \/ RefreshClick
    \/ \E dev \in MidiDevices, data \in DetachMessages, src \in RandomSources :
          MidiMessage(dev, data, src)
    \/ \E src \in RandomSources : PointerDown("8", src)
    \/ PointerUp("8")
    \/ BeforeUnload

SpecDetach == InitCutoff /\ [][NextDetach]_vars

----------------------------------------------------------------------------
(* MIDI voices when their input is detached.                               *)

\* The voices of the table that MIDI started.
MidiVoices(table) == DOMAIN table \ DOMAIN notes

\* The step is a change of the input select or the unloading of the page,
\* or it is a step after which the selected input is not among the inputs.
SelectedInputGone ==
    /\ midi.selectedMidiInputId # ""
    /\ midi.selectedMidiInputId \notin Range(getMidiInputs(midi'))
    /\ last'.op \in {"statechange", "midiRefresh", "midiEnable", "midiAccess"}
DetachStep ==
    \/ last'.op = "midiSelect"
    \/ last'.op = "beforeunload"
    \/ SelectedInputGone

\* C34: a change of the input select, the disappearance of the selected
\* input from the inputs, and the unloading of the page each leave the map
\* of held MIDI notes empty and no MIDI voice in the table: every MIDI
\* voice that was in it has got its release ramp and its oscillator's
\* stop, and the voices of keys are left alone.  So in no state does a
\* MIDI voice sound while no input has the handler.
C34_DetachStopsMidiVoices ==
    /\ [][DetachStep =>
            /\ midi'.midiActiveNotes = <<>>
            /\ MidiVoices(activeVoices') = {}
            /\ \A id \in MidiVoices(activeVoices) :
                /\ Released(last'.instrs, activeVoices[id])
                /\ nodes'[activeVoices[id].osc].stopAt >= 0
            /\ \A k \in DOMAIN activeVoices \cap DOMAIN notes :
                /\ k \in DOMAIN activeVoices'
                /\ activeVoices'[k] = activeVoices[k]
                /\ nodes'[activeVoices[k].osc].stopAt < 0]_vars
    /\ [](midi.handlers = {} => MidiVoices(activeVoices) = {})

\* The selected input was pulled out while one of its notes and a key
\* sounded: the MIDI voice was released, the key's voice sounds on.
C34_Witness ==
    /\ last.op = "statechange"
    /\ midi.handlers = {}
    /\ midi.midiActiveNotes = <<>>
    /\ DOMAIN activeVoices = {"8"}
    /\ Len(OscillatorStops(last.instrs)) = 1
    /\ \E i \in 1..Len(nodes) : nodes[i].key = "midi:0:69" /\ nodes[i].stopAt >= 0

\* The page was unloaded while a MIDI note sounded.
UnloadReleasedMidiVoice ==
    /\ last.op = "beforeunload"
    /\ Len(OscillatorStops(last.instrs)) = 1
    /\ activeVoices = << >>
    /\ midi.selectedMidiInput = ""

----------------------------------------------------------------------------
(* The messages handleMidiMessage ignores.                                 *)

\* The message is one the handler returns on at once: too short, of
\* another status than note-on and note-off, a note-on of a held note, or
\* a note-off (or note-on of velocity 0) of a note that is not held.
TooShort(data) == Len(data) < 2
OtherStatus(data) == Len(data) >= 2 /\ data[1] \div 16 \notin {8, 9}
NoteOnHeld(data) == IsNoteOn(data) /\ Held(data)
NoteOffNotHeld(data) == IsNoteOff(data) /\ ~Held(data)

\* The step has changed nothing of the synth or of the held notes and has
\* made no call on an audio node.
NothingDone ==
    /\ last'.instrs = <<>>
    /\ last'.created = 0
    /\ ~last'.raised
    /\ midi' = midi
    /\ page'.active = page.active
    /\ UNCHANGED <<activeVoices, nodes, audioCtx, master>>

\* C35: handleMidiMessage called with a message of fewer than 2 bytes,
\* with one whose status is neither note-off nor note-on, with a note-on
\* of a note that is held, or with a note-off of a note that is not held
\* leaves the voice table and the map of held notes as they were and
\* makes no call on an audio node.
C35_IgnoredMessagesChangeNothing ==
    [][\A data \in MidiMessages :
        /\ \/ TooShort(data)
           \/ OtherStatus(data)
           \/ NoteOnHeld(data)
           \/ NoteOffNotHeld(data)
        /\ Sent(data)
        => NothingDone]_vars

\* A message was handled and nothing done while a note was held and its
\* voice sounded.
C35_Witness ==
    /\ last.op = "midimessage"
    /\ last.keyId = ""
    /\ last.instrs = <<>>
    /\ midi.midiActiveNotes = <<"midi:0:69">>
    /\ DOMAIN activeVoices = {"midi:0:69"}
    /\ midi.handlers # {}

----------------------------------------------------------------------------
(* The object URLs of the downloads.                                       *)

\* The object URLs made so far (each download makes the next number).
UrlsMade == 1..Len(recorder.downloaded)

\* C36: no object URL is revoked more than once, whatever the order of
\* downloads and timers.  A URL is unrevoked exactly while it is the last
\* one; a later download has revoked the one before it; and once the
\* timer of a URL has run, the URL has been revoked exactly once.  A
\* timer revokes its URL only when that URL is still the last one.
C36_UrlsRevokedOnce ==
    /\ [](/\ Len(recorder.revoked) = Len(recorder.downloaded)
          /\ recorder.timers \subseteq UrlsMade
          /\ recorder.lastRecordingUrl \in UrlsMade \cup {0}
          /\ \A url \in UrlsMade :
                /\ recorder.revoked[url] <= 1
                /\ recorder.revoked[url] = 0 <=> recorder.lastRecordingUrl = url
                /\ url < Len(recorder.downloaded) => recorder.revoked[url] = 1
                /\ url \notin recorder.timers => recorder.revoked[url] = 1)
    /\ [][\A url \in UrlsMade :
            recorder'.revoked[url] # recorder.revoked[url] =>
                /\ recorder.lastRecordingUrl = url
                /\ recorder'.lastRecordingUrl # url
                /\ recorder'.revoked[url] = 1]_vars

\* Two downloads within a second: the second revoked the first URL, the
\* first timer then found another URL the last one and did nothing, and
\* the second timer revoked the second.
C36_Witness ==
    /\ Len(recorder.downloaded) = 2
    /\ recorder.timers = {}
    /\ recorder.lastRecordingUrl = 0
    /\ recorder.revoked = <<1, 1>>
    /\ last = NoCall

\* The first timer is still to run after the second download.
FirstTimerAfterSecondDownload ==
    /\ Len(recorder.downloaded) = 2
    /\ recorder.timers = {1, 2}
    /\ recorder.revoked = <<1, 0>>

----------------------------------------------------------------------------
(* Requests for MIDI access.                                               *)

\* The step is a click on Enable MIDI.
EnableStep == last'.op = "midiEnable" /\ last' # last

\* C37: whatever the order of clicks on Enable MIDI and of the answers to
\* requestMIDIAccess, at most one request is under way; the rest of
\* enableMidi after the answer, which registers the statechange listener,
\* runs only while no access is held, so that the listener is registered
\* once; and a click while access is held makes no request.
C37_OneAccessRequest ==
    /\ [](midi.pending <= 1)
    /\ [][AccessStep => ~midi.midiAccess]_vars
    /\ [][(EnableStep /\ midi.midiAccess) => midi'.pending = midi.pending]_vars

\* What does hold: once access is held the button is disabled, and no
\* request is made from then on.
AccessHeldStopsRequests ==
    /\ [](midi.midiAccess => midi.enableDisabled /\ ~midi.refreshDisabled)
    /\ [][midi.midiAccess => midi'.pending <= midi.pending]_vars

\* Two requests are under way.
TwoRequestsPending == midi.pending = 2 /\ ~midi.midiAccess

----------------------------------------------------------------------------
(* Recordings of several buffers.                                          *)

NextChunks ==
    \/ StartRecording
    \/ StopRecording
    \/ \E input \in InputBuffers : AudioProcess(input)
    \/ \E url \in 1..MaxDownloads : RevokeTimer(url)

SpecChunks == InitCutoff /\ [][NextChunks]_vars

----------------------------------------------------------------------------
(* What a recording holds.                                                 *)

\* The samples of a sequence of buffers, one buffer after the other.
RECURSIVE SamplesOf(_)
SamplesOf(buffers) ==
    IF buffers = <<>> THEN <<>>
    ELSE Head(buffers) \o SamplesOf(Tail(buffers))

\* Frames of a left and a right channel of the same length: left sample,
\* right sample, for each index.
RECURSIVE Frames(_, _)
Frames(left, right) ==
    IF left = <<>> THEN <<>>
    ELSE <<Head(left), Head(right)>> \o Frames(Tail(left), Tail(right))

\* A sample in 1/10000 as 16 bit PCM.
Pcm16(x) ==
    IF x <= 0 - GainScale THEN 0 - 32768
    ELSE IF x >= GainScale THEN 32767
    ELSE IF x < 0 THEN 0 - (((0 - x) * 32768) \div GainScale)
    ELSE (x * 32767) \div GainScale

\* The step starts a recording, ends one, or is the callback of the
\* recorder node.
RecordingBegins == ~recorder.isRecording /\ recorder'.isRecording
RecordingEnds == recorder.isRecording /\ ~recorder'.isRecording
BufferArrives ==
    /\ recorder.isRecording /\ recorder'.isRecording
    /\ recorder'.recordedBuffers # recorder.recordedBuffers

\* C38: while recording, the buffers hold the chunks the callback got
\* since the recording began, per channel and in the order they came, and
\* recordedLength is the sum of their lengths; while not recording there
\* is no callback, no buffer and the length is 0.  A start begins with
\* empty buffers; the callback appends one chunk to each channel and adds
\* its length; a stop downloads a WAV whose samples are the frames of
\* those chunks in that order, as 16 bit PCM, and empties the buffers.
C38_RecordingHoldsItsChunks ==
    /\ [](IF recorder.isRecording
          THEN /\ Len(recorder.recordedBuffers) = channelCount
               /\ \A ch \in 1..channelCount :
                    Len(SamplesOf(recorder.recordedBuffers[ch]))
                      = recorder.recordedLength
               /\ recorder.recorderNode
          ELSE /\ recorder.recordedBuffers = <<>>
               /\ recorder.recordedLength = 0
               /\ ~recorder.recorderNode)
    /\ [][/\ RecordingBegins =>
                /\ recorder'.recordedBuffers = <<<<>>, <<>>>>
                /\ recorder'.recordedLength = 0
          /\ BufferArrives =>
                \E input \in InputBuffers :
                    /\ \A ch \in 1..channelCount :
                          recorder'.recordedBuffers[ch]
                            = Append(recorder.recordedBuffers[ch], input[ch])
                    /\ recorder'.recordedLength
                         = recorder.recordedLength + Len(input[1])
          /\ RecordingEnds =>
                LET left == SamplesOf(recorder.recordedBuffers[1])
                    right == SamplesOf(recorder.recordedBuffers[2])
                    frames == Frames(left, right)
                    wav == recorder'.downloaded[Len(recorder'.downloaded)]
                IN  /\ ~last'.raised
                    /\ Len(recorder'.downloaded) = Len(recorder.downloaded) + 1
                    /\ wav.samples = [i \in 1..Len(frames) |-> Pcm16(frames[i])]
                    /\ wav.dataLength = 2 * Len(frames)
                    /\ left # <<>> => wav.numChannels = 2
                    /\ wav.sampleRate = env.sampleRate
                    /\ recorder'.recordedBuffers = <<>>
                    /\ recorder'.recordedLength = 0
          /\ (~recorder.isRecording /\ ~recorder'.isRecording) =>
                recorder'.recordedBuffers = recorder.recordedBuffers]_vars

\* The second recording got the chunks in the other order than the first:
\* each WAV holds its own two chunks, in the order they came.
C38_Witness ==
    /\ Len(recorder.downloaded) = 2
    /\ ~recorder.isRecording
    /\ recorder.downloaded[1].samples = <<16383, 0 - 16384, 0 - 32768, 32767, 3, 32767>>
    /\ recorder.downloaded[2].samples = <<0 - 32768, 32767, 3, 32767, 16383, 0 - 16384>>

====
